---- MODULE Spec2Model ----
\* Funding-rate service: the read path (routers/funding.py), the shared state
\* (app_state.py), the fan-out fetcher and its venue adapters
\* (services/exchange_fetcher.py), the refresh loop (main.py) and the history
\* sink (storage/parquet_cache.py).
\*
\* Strings the code inspects character by character (symbols) are sequences of
\* one-character strings.  Every time value is in units of 1000 ms, so that
\* the epoch-millisecond magnitudes of the code (10^12) fit 32-bit integers:
\* 15_000 ms is 15, 3_600_000 ms is 3600, 10^12 ms is 10^9.
EXTENDS Integers, Sequences, FiniteSets, TLC

VARIABLES
    funding_cache,   \* app_state._funding_cache: ordered dict, symbol -> snapshot
    last_fetch_ms,   \* app_state._last_fetch_ms: dict, symbol -> time of last write
    cache_symbol,    \* app_state._cache_symbol: the tracked symbol
    now,             \* the clock read by time.time()
    req,             \* the request handlers: one record per client connection
    loop,            \* main._refresh_loop: its position, symbol and wake-up time
    reply,           \* the response a request handler returned in the step just taken
    parquet,         \* the history sink: whether pandas is there, and the file
    fan,             \* one fan-out call followed task by task (fetch_all / gather)
    call             \* one function applied on its own: its input and its result

vars == <<funding_cache, last_fetch_ms, cache_symbol, now, req, reply, loop, parquet, fan, call>>

-----------------------------------------------------------------------------
\* Characters and strings

LowerCase == <<"a","b","c","d","e","f","g","h","i","j","k","l","m",
               "n","o","p","q","r","s","t","u","v","w","x","y","z">>

UpperCase == <<"A","B","C","D","E","F","G","H","I","J","K","L","M",
               "N","O","P","Q","R","S","T","U","V","W","X","Y","Z">>

Digits == {"0","1","2","3","4","5","6","7","8","9"}

Whitespace == {" ", "\t", "\n"}

Range(s) == {s[i] : i \in DOMAIN s}

\* the upper-case letter of each lower-case letter
UpperOf ==
    [c \in Range(LowerCase) |-> UpperCase[CHOOSE i \in DOMAIN LowerCase : LowerCase[i] = c]]

\* str.upper() on one character
UpperChar(c) == IF c \in DOMAIN UpperOf THEN UpperOf[c] ELSE c

\* str.upper()
StrUpper(s) == [i \in DOMAIN s |-> UpperChar(s[i])]

\* str.strip(): drop the leading and the trailing whitespace
StrStrip(s) ==
    LET keep == {i \in DOMAIN s : s[i] \notin Whitespace}
    IN  IF keep = {} THEN <<>>
        ELSE LET lo == CHOOSE i \in keep : \A j \in keep : i <= j
                 hi == CHOOSE i \in keep : \A j \in keep : j <= i
             IN  SubSeq(s, lo, hi)

\* str.replace(" ", "")
StrRemoveSpaces(s) == SelectSeq(s, LAMBDA c : c # " ")

\* str.endswith(suffix)
StrEndsWith(s, suffix) ==
    /\ Len(s) >= Len(suffix)
    /\ SubSeq(s, Len(s) - Len(suffix) + 1, Len(s)) = suffix

USDT == <<"U","S","D","T">>

\* the literal "ABCDEFGHIJKLMNOPQRSTUVWXYZ0123456789-" of the validity checks
AllowedChars == Range(UpperCase) \cup Digits \cup {"-"}

\* a mutant of SymbolOk: the blank is taken for an allowed character
SymbolOkBlank(s) == s # <<>> /\ \A i \in DOMAIN s : s[i] \in AllowedChars \cup {" "}

\* a mutant of SymbolOk: the test for the empty string is lost
SymbolOkEmpty(s) == \A i \in DOMAIN s : s[i] \in AllowedChars

\* routers/funding.py: s and all(c in "A..Z0..9-" for c in s), negated by the caller
SymbolOk(s) == s # <<>> /\ \A i \in DOMAIN s : s[i] \in AllowedChars

\* a mutant of _normalize_symbol: the test for the USDT suffix is lost
_normalize_symbol_suffix(symbol) ==
    LET s == StrStrip(StrUpper(symbol))
    IN  IF s # <<>> /\ "-" \notin Range(s) THEN s \o USDT ELSE s

\* a mutant of _normalize_symbol: the test for the hyphen is lost
_normalize_symbol_hyphen(symbol) ==
    LET s == StrStrip(StrUpper(symbol))
    IN  IF s # <<>> /\ ~StrEndsWith(s, USDT) THEN s \o USDT ELSE s

\* routers/funding.py _normalize_symbol
_normalize_symbol(symbol) ==
    LET s == StrStrip(StrUpper(symbol))
    IN  IF s # <<>> /\ "-" \notin Range(s) /\ ~StrEndsWith(s, USDT)
        THEN s \o USDT
        ELSE s

-----------------------------------------------------------------------------
\* Ordered dictionaries (a Python dict keeps insertion order): a sequence of
\* [key, val] pairs with distinct keys.

DictKeys(d) == {d[i].key : i \in DOMAIN d}

DictHas(d, k) == k \in DictKeys(d)

DictGet(d, k) == d[CHOOSE i \in DOMAIN d : d[i].key = k].val

\* d[k] = v: an existing key keeps its place, a new key goes last
DictSet(d, k, v) ==
    IF DictHas(d, k)
    THEN [i \in DOMAIN d |-> IF d[i].key = k THEN [key |-> k, val |-> v] ELSE d[i]]
    ELSE Append(d, [key |-> k, val |-> v])

-----------------------------------------------------------------------------
\* JSON values of the upstream payloads, tagged by their Python type.

JInt(n) == [t |-> "int", v |-> n]          \* a JSON number
JNumStr(n) == [t |-> "numstr", v |-> n]    \* a JSON string spelling the integer n
JStr(s) == [t |-> "str", s |-> s]          \* any other JSON string
JSym(c) == [t |-> "sym", c |-> c]          \* a JSON string holding a symbol
JMissing == [t |-> "missing"]              \* the key is absent (dict.get gives None)

DigitStr == <<"0","1","2","3","4","5","6","7","8","9">>

RECURSIVE IntStr(_)
IntStr(n) ==
    IF n < 10 THEN DigitStr[n + 1]
    ELSE IntStr(n \div 10) \o DigitStr[(n % 10) + 1]

\* bool(v) is False
Falsy(v) ==
    \/ v.t = "missing"
    \/ v.t = "str" /\ v.s = ""
    \/ v.t = "int" /\ v.v = 0

\* v or d
PyOr(v, d) == IF Falsy(v) THEN d ELSE v

\* dict.get(key, d)
GetOr(v, d) == IF v.t = "missing" THEN d ELSE v

\* int(v) succeeds
CanInt(v) == v.t \in {"int", "numstr"}

\* str(v), f"{v}"
PyStr(v) ==
    CASE v.t = "str" -> v.s
      [] v.t \in {"int", "numstr"} -> IntStr(v.v)
      [] OTHER -> "None"

\* dict.get("symbol", symbol) of a payload whose symbol field is a string
SymbolOr(v, symbol) == IF v.t = "sym" THEN v.c ELSE symbol

\* The outcome of a try-body: a returned value or a raised exception.
Return(v) == [raised |-> FALSE, val |-> v]
Raise(msg) == [raised |-> TRUE, exc |-> msg]

None == [t |-> "None"]

\* str(e) of the exception an HTTP exchange raises: client.get (timeout,
\* connect), raise_for_status (status), r.json (notjson)
HttpError(http) ==
    CASE http = "timeout" -> "ReadTimeout"
      [] http = "connect" -> "ConnectError"
      [] http = "status" -> "HTTPStatusError"
      [] OTHER -> "JSONDecodeError"

Venues == <<"binance", "bybit", "okx">>

VenueSet == Range(Venues)

-----------------------------------------------------------------------------
\* services/exchange_fetcher.py: the venue adapters.  An upstream response is
\* [http, shape, ...]: http is "ok" or the transport failure, shape the JSON
\* type of the body.

\* _symbol_okx
_symbol_okx(symbol) ==
    IF "-" \in Range(symbol)
    THEN LET at == CHOOSE i \in DOMAIN symbol :
                      symbol[i] = "-" /\ \A j \in 1..(i - 1) : symbol[j] # "-"
             base == SubSeq(symbol, 1, at - 1)
             quote == SubSeq(symbol, at + 1, Len(symbol))
         IN  base \o <<"-">> \o quote \o <<"-","S","W","A","P">>
    ELSE IF Len(symbol) >= 6 /\ StrEndsWith(symbol, USDT)
         THEN SubSeq(symbol, 1, Len(symbol) - 4) \o <<"-","U","S","D","T","-","S","W","A","P">>
         ELSE symbol \o <<"-","S","W","A","P">>

\* a mutant of _binance_interval: the first listed symbol's interval is taken,
\* whichever symbol it is
_binance_interval_first(symbol, info) ==
    IF info.http = "ok" /\ info.shape = "list" /\ info.list # <<>>
    THEN PyStr(GetOr(info.list[1].fundingIntervalHours, JStr("8"))) \o "h"
    ELSE "8h"

\* _binance_interval: the fundingInfo lookup; every failure gives "8h"
_binance_interval(symbol, info) ==
    LET hit == {i \in DOMAIN info.list :
                    SymbolOr(info.list[i].symbol, <<>>) = StrUpper(symbol)}
    IN  IF info.http = "ok" /\ info.shape = "list" /\ hit # {}
        THEN LET x == info.list[CHOOSE i \in hit : \A j \in hit : i <= j]
             IN  PyStr(GetOr(x.fundingIntervalHours, JStr("8"))) \o "h"
        ELSE "8h"

\* fetch_binance, the body of its try
fetch_binance_try(symbol, r) ==
    IF r.http # "ok" THEN Raise(HttpError(r.http))
    ELSE IF r.shape \notin {"dict", "list"} THEN Raise("AttributeError")
    ELSE LET hit == {i \in DOMAIN r.list :
                         SymbolOr(r.list[i].symbol, <<>>) = StrUpper(symbol)}
             data == IF r.shape = "dict" THEN r.dict
                     ELSE IF hit # {}
                          THEN r.list[CHOOSE i \in hit : \A j \in hit : i <= j]
                          ELSE IF r.list # <<>> THEN r.list[1]
                               ELSE [symbol |-> JMissing, lastFundingRate |-> JMissing,
                                     nextFundingTime |-> JMissing]
             ts == GetOr(data.nextFundingTime, JInt(0))
         IN  IF ~CanInt(ts) THEN Raise("ValueError")
             ELSE Return([exchange |-> "binance",
                          symbol |-> SymbolOr(data.symbol, symbol),
                          fundingRate |-> PyStr(GetOr(data.lastFundingRate, JStr(""))),
                          nextFundingTimeMs |-> ts.v,
                          interval |-> _binance_interval(symbol, r.info)])

\* fetch_binance: the outcome of the coroutine; except Exception: return None
fetch_binance(symbol, r) ==
    LET t == fetch_binance_try(symbol, r)
    IN  IF t.raised THEN Return(None) ELSE t

\* fetch_bybit, the body of its try
fetch_bybit_try(symbol, r) ==
    IF r.http # "ok" THEN Raise(HttpError(r.http))
    ELSE IF r.shape # "dict" THEN Raise("AttributeError")
    ELSE IF r.retCode # 0 THEN Return(None)
    ELSE IF r.list = <<>> THEN Return(None)
    ELSE LET item == r.list[1]
             next_ts == PyOr(item.nextFundingTime, JNumStr(0))
             interval_h == PyOr(item.fundingIntervalHour, JStr("8"))
         IN  IF ~CanInt(next_ts) THEN Raise("ValueError")
             ELSE Return([exchange |-> "bybit",
                          symbol |-> SymbolOr(item.symbol, symbol),
                          fundingRate |-> PyStr(GetOr(item.fundingRate, JStr(""))),
                          nextFundingTimeMs |-> next_ts.v,
                          interval |-> PyStr(interval_h) \o "h"])

\* a mutant of fetch_bybit: the try/except around the body is gone
fetch_bybit_unguarded(symbol, r) == fetch_bybit_try(symbol, r)

\* fetch_bybit: the outcome of the coroutine; except Exception: return None
fetch_bybit(symbol, r) ==
    LET t == fetch_bybit_try(symbol, r)
    IN  IF t.raised THEN Return(None) ELSE t

\* 3_600_000 ms, one hour
HOUR_MS == 3600

\* 1_000_000_000_000: a raw timestamp below it is taken to be in seconds
SECONDS_BELOW == 1000000000

\* round(a / b) for a >= 0, b > 0: Python rounds a tie to the even neighbour
PyRoundDiv(a, b) ==
    LET q == a \div b
        r == a % b
    IN  IF 2 * r < b THEN q
        ELSE IF 2 * r > b THEN q + 1
        ELSE IF q % 2 = 0 THEN q ELSE q + 1

\* a mutant of _okx_ts_ms: a value in seconds is not scaled
_okx_ts_ms_unscaled(raw) ==
    IF Falsy(raw) THEN 0
    ELSE IF ~CanInt(raw) THEN 0
    ELSE raw.v

\* _okx_ts_ms
_okx_ts_ms(raw) ==
    IF Falsy(raw) THEN 0
    ELSE IF ~CanInt(raw) THEN 0
    ELSE IF 0 < raw.v /\ raw.v < SECONDS_BELOW THEN raw.v * 1000
    ELSE raw.v

\* a mutant of _okx_interval_hours: the fallback to prevFundingTime is lost
_okx_interval_hours_noprev(item) ==
    LET next_ts == _okx_ts_ms(PyOr(item.nextFundingTime, JNumStr(0)))
        curr_ts == _okx_ts_ms(PyOr(item.fundingTime, JNumStr(0)))
        h1 == PyRoundDiv(next_ts - curr_ts, HOUR_MS)
    IN  IF curr_ts > 0 /\ next_ts > curr_ts /\ 1 <= h1 /\ h1 <= 24 THEN h1
        ELSE 8

\* _okx_interval_hours
_okx_interval_hours(item) ==
    LET next_ts == _okx_ts_ms(PyOr(item.nextFundingTime, JNumStr(0)))
        curr_ts == _okx_ts_ms(PyOr(item.fundingTime, JNumStr(0)))
        prev_ts == _okx_ts_ms(PyOr(item.prevFundingTime, JNumStr(0)))
        h1 == PyRoundDiv(next_ts - curr_ts, HOUR_MS)
        h2 == PyRoundDiv(next_ts - prev_ts, HOUR_MS)
    IN  IF curr_ts > 0 /\ next_ts > curr_ts /\ 1 <= h1 /\ h1 <= 24 THEN h1
        ELSE IF prev_ts > 0 /\ next_ts > prev_ts /\ 1 <= h2 /\ h2 <= 24 THEN h2
        ELSE 8

\* a mutant of fetch_okx_try: the reported time is returned as it came
fetch_okx_try_reported(symbol, r) ==
    LET inst_id == _symbol_okx(symbol)
    IN  IF r.http # "ok" THEN Raise(HttpError(r.http))
        ELSE IF r.shape # "dict" THEN Raise("AttributeError")
        ELSE IF r.code # "0" THEN Return(None)
        ELSE IF r.list = <<>> THEN Return(None)
        ELSE LET item == r.list[1]
                 interval_h == _okx_interval_hours(item)
             IN  Return([exchange |-> "okx",
                         symbol |-> SymbolOr(item.instId, inst_id),
                         fundingRate |-> PyStr(PyOr(item.fundingRate,
                                                    GetOr(item.settFundingRate, JStr("")))),
                         nextFundingTimeMs |-> _okx_ts_ms(PyOr(item.nextFundingTime, JNumStr(0))),
                         interval |-> IntStr(interval_h) \o "h"])

\* fetch_okx, the body of its try
fetch_okx_try(symbol, r) ==
    LET inst_id == _symbol_okx(symbol)
    IN  IF r.http # "ok" THEN Raise(HttpError(r.http))
        ELSE IF r.shape # "dict" THEN Raise("AttributeError")
        ELSE IF r.code # "0" THEN Return(None)
        ELSE IF r.list = <<>> THEN Return(None)
        ELSE LET item == r.list[1]
                 reported == _okx_ts_ms(PyOr(item.nextFundingTime, JNumStr(0)))
                 interval_h == _okx_interval_hours(item)
                 interval_ms == interval_h * HOUR_MS
                 next_ts_ms == IF reported > interval_ms
                               THEN reported - interval_ms
                               ELSE reported
             IN  Return([exchange |-> "okx",
                         symbol |-> SymbolOr(item.instId, inst_id),
                         fundingRate |-> PyStr(PyOr(item.fundingRate,
                                                    GetOr(item.settFundingRate, JStr("")))),
                         nextFundingTimeMs |-> next_ts_ms,
                         interval |-> IntStr(interval_h) \o "h"])

\* fetch_okx: the outcome of the coroutine; except Exception: return None
fetch_okx(symbol, r) ==
    LET t == fetch_okx_try(symbol, r)
    IN  IF t.raised THEN Return(None) ELSE t

\* The history adapters: a list of {fundingTime, fundingRate}; [] on any failure.

HistoryPoint(ts, rate) == [fundingTime |-> ts, fundingRate |-> rate]

\* fetch_funding_history_binance
fetch_funding_history_binance(symbol, r) ==
    IF r.http # "ok" THEN <<>>
    ELSE IF r.shape # "list" THEN <<>>
    ELSE IF \E i \in DOMAIN r.list : ~CanInt(GetOr(r.list[i].fundingTime, JInt(0)))
         THEN <<>>
    ELSE [i \in DOMAIN r.list |->
            HistoryPoint(GetOr(r.list[i].fundingTime, JInt(0)).v,
                         PyStr(GetOr(r.list[i].fundingRate, JStr(""))))]

\* fetch_funding_history_bybit
fetch_funding_history_bybit(symbol, r) ==
    LET ft(x) == PyOr(x.fundingRateTimestamp, PyOr(x.fundingRateTime, JNumStr(0)))
        ms(t) == IF 0 < t /\ t < SECONDS_BELOW THEN t * 1000 ELSE t
    IN  IF r.http # "ok" THEN <<>>
        ELSE IF r.shape # "dict" THEN <<>>
        ELSE IF r.retCode # 0 THEN <<>>
        ELSE IF \E i \in DOMAIN r.list : ~CanInt(ft(r.list[i])) THEN <<>>
        ELSE [i \in DOMAIN r.list |->
                HistoryPoint(ms(ft(r.list[i]).v),
                             PyStr(GetOr(r.list[i].fundingRate, JStr(""))))]

\* fetch_funding_history_okx
fetch_funding_history_okx(symbol, r) ==
    IF r.http # "ok" THEN <<>>
    ELSE IF r.shape # "dict" THEN <<>>
    ELSE IF r.code # "0" THEN <<>>
    ELSE [i \in DOMAIN r.list |->
            HistoryPoint(_okx_ts_ms(PyOr(r.list[i].fundingTime, JNumStr(0))),
                         PyStr(GetOr(r.list[i].fundingRate, JStr(""))))]

-----------------------------------------------------------------------------
\* services/exchange_fetcher.py: the fan-out.  A task's outcome, as
\* asyncio.gather(return_exceptions=True) hands it over, is Return(value) or
\* Raise(message); results[i] is the outcome of tasks[i].

\* tasks[i] of fetch_all: the coroutine of venue name, run against its upstream
FundingTask(name, symbol, up) ==
    CASE name = "binance" -> fetch_binance(symbol, up)
      [] name = "bybit" -> fetch_bybit(symbol, up)
      [] OTHER -> fetch_okx(symbol, up)

\* tasks[i] of fetch_all_funding_history
HistoryTask(name, symbol, up) ==
    CASE name = "binance" -> Return(fetch_funding_history_binance(symbol, up))
      [] name = "bybit" -> Return(fetch_funding_history_bybit(symbol, up))
      [] OTHER -> Return(fetch_funding_history_okx(symbol, up))

ErrorRecord(name, msg) ==
    [exchange |-> name, error |-> msg, fundingRate |-> "",
     nextFundingTimeMs |-> 0, interval |-> ""]

\* a mutant of FundingEntry: the result is stored as it came, None included
FundingEntryAsIs(name, r) ==
    IF r.raised THEN ErrorRecord(name, r.exc) ELSE r.val

\* fetch_all, one pass of its loop: isinstance(r, Exception) / elif r / else
FundingEntry(name, r) ==
    IF r.raised THEN ErrorRecord(name, r.exc)
    ELSE IF r.val # None THEN r.val
    ELSE ErrorRecord(name, "No data")

\* a mutant of HistoryEntry: only the first point of a venue's list is kept
HistoryEntryFirstPoint(name, r) ==
    IF r.raised \/ r.val = <<>> THEN <<>> ELSE <<r.val[1]>>

\* fetch_all_funding_history, one pass of its loop
HistoryEntry(name, r) ==
    IF r.raised THEN <<>> ELSE r.val

\* out = {}; for i, name in enumerate(["binance", "bybit", "okx"]): out[name] = ...
RECURSIVE FoldFunding(_, _)
FoldFunding(results, n) ==
    IF n = 0 THEN <<>>
    ELSE DictSet(FoldFunding(results, n - 1), Venues[n], FundingEntry(Venues[n], results[n]))

RECURSIVE FoldHistory(_, _)
FoldHistory(results, n) ==
    IF n = 0 THEN <<>>
    ELSE DictSet(FoldHistory(results, n - 1), Venues[n], HistoryEntry(Venues[n], results[n]))

\* fetch_all, given the upstream response of each venue
fetch_all(symbol, up) ==
    LET s == StrRemoveSpaces(StrUpper(symbol))
        results == [i \in DOMAIN Venues |-> FundingTask(Venues[i], s, up[Venues[i]])]
    IN  FoldFunding(results, Len(Venues))

\* fetch_all_funding_history, given the upstream response of each venue
fetch_all_funding_history(symbol, up) ==
    LET s == StrRemoveSpaces(StrUpper(symbol))
        results == [i \in DOMAIN Venues |-> HistoryTask(Venues[i], s, up[Venues[i]])]
    IN  FoldHistory(results, Len(Venues))

-----------------------------------------------------------------------------
\* app_state.py: the shared state, as operators on the dictionaries.

\* config.py DEFAULT_SYMBOL = "BTCUSDT"
DEFAULT_SYMBOL == <<"B","T","C","U","S","D","T">>

\* config.py REFRESH_INTERVAL_SEC = 15 (seconds)
REFRESH_INTERVAL_SEC == 15

\* routers/funding.py _FETCH_TTL_MS = 15_000 (ms)
FETCH_TTL_MS == 15

\* the key every app_state function derives from its argument
CacheKey(symbol) == StrStrip(StrUpper(symbol))

\* a mutant of set_requested_symbol: the assignment to _cache_symbol is lost
set_requested_symbol_lost(tracked, symbol) == tracked

\* a mutant of set_requested_symbol: the symbol is stored without the check
set_requested_symbol_unchecked(tracked, symbol) == CacheKey(symbol)

\* set_requested_symbol: the new value of _cache_symbol
set_requested_symbol(tracked, symbol) ==
    LET s == CacheKey(symbol)
    IN  IF SymbolOk(s) THEN s ELSE tracked

\* {"binance": {}, "bybit": {}, "okx": {}}
EmptySnapshot ==
    <<[key |-> "binance", val |-> <<>>],
      [key |-> "bybit", val |-> <<>>],
      [key |-> "okx", val |-> <<>>]>>

\* a mutant of get_cached_funding: the lookup by symbol is skipped and the
\* fallback (tracked symbol, else the first entry) is always taken
get_cached_funding_first(cache, tracked, symbol) ==
    IF cache # <<>> THEN cache[1].val ELSE EmptySnapshot

\* a mutant of get_cached_funding: no fallback, a symbol without an entry
\* gets the placeholder
get_cached_funding_nofallback(cache, tracked, symbol) ==
    IF DictHas(cache, CacheKey(symbol)) THEN DictGet(cache, CacheKey(symbol))
    ELSE EmptySnapshot

\* get_cached_funding
get_cached_funding(cache, tracked, symbol) ==
    LET s == CacheKey(symbol)
    IN  IF DictHas(cache, s) THEN DictGet(cache, s)
        ELSE IF cache # <<>>
             THEN IF DictHas(cache, tracked) THEN DictGet(cache, tracked)
                  ELSE cache[1].val
             ELSE EmptySnapshot

\* has_cached
has_cached(cache, symbol) == DictHas(cache, CacheKey(symbol))

\* get_last_fetch_ms: _last_fetch_ms.get(key, 0)
get_last_fetch_ms(last, symbol) ==
    IF CacheKey(symbol) \in DOMAIN last THEN last[CacheKey(symbol)] ELSE 0

\* a mutant of CachePut: the entry is added without looking for an older one
CachePutAppend(cache, symbol, data) ==
    Append(cache, [key |-> CacheKey(symbol), val |-> data])

\* a mutant of CachePut: the cache is replaced by the one new entry
CachePutOnly(cache, symbol, data) ==
    <<[key |-> CacheKey(symbol), val |-> data]>>

\* every per-venue record of the snapshot is an error record
AllErrors(data) == \A i \in DOMAIN data : "error" \in DOMAIN data[i].val

\* a mutant of CachePut: a snapshot of error records does not replace an
\* entry that holds data
CachePutKeepGood(cache, symbol, data) ==
    IF DictHas(cache, CacheKey(symbol)) /\ AllErrors(data)
          /\ ~AllErrors(DictGet(cache, CacheKey(symbol)))
    THEN cache
    ELSE DictSet(cache, CacheKey(symbol), data)

\* set_funding_cache: the new _funding_cache
CachePut(cache, symbol, data) == DictSet(cache, CacheKey(symbol), data)

\* a mutant of StampPut: the write of the timestamp is lost
StampPutLost(last, symbol, t) == last

\* a mutant of StampPut: a symbol that has a timestamp keeps it, only the first
\* write of a symbol is stamped
StampPutKeepOlder(last, symbol, t) ==
    IF CacheKey(symbol) \in DOMAIN last THEN last
    ELSE [k \in DOMAIN last \cup {CacheKey(symbol)} |->
             IF k = CacheKey(symbol) THEN t ELSE last[k]]

\* set_funding_cache: the new _last_fetch_ms, stamped with the time of the write
StampPut(last, symbol, t) ==
    [k \in DOMAIN last \cup {CacheKey(symbol)} |->
        IF k = CacheKey(symbol) THEN t ELSE last[k]]

\* a mutant of IsFresh: an entry exactly as old as the TTL still counts as fresh
IsFreshInclusive(cache, last, symbol, t) ==
    has_cached(cache, symbol) /\ t - get_last_fetch_ms(last, symbol) <= FETCH_TTL_MS

\* a mutant of IsFresh: the handler serves from the cache whenever the cache
\* holds an entry younger than the TTL, of whatever symbol
IsFreshAnyEntry(cache, last, symbol, t) ==
    \E k \in DictKeys(cache) : t - last[k] < FETCH_TTL_MS

\* routers/funding.py funding: the freshness test of line 39
IsFresh(cache, last, symbol, t) ==
    has_cached(cache, symbol) /\ t - get_last_fetch_ms(last, symbol) < FETCH_TTL_MS

-----------------------------------------------------------------------------
\* storage/parquet_cache.py: the history sink.  The file is [exists, rows]:
\* whether path.exists(), and the rows it holds.

NoFile == [exists |-> FALSE, rows |-> <<>>]

\* window_ms = 8 * 3600 * 1000
WINDOW_HOURS == 8

\* a mutant of PruneRows: only the time of writing decides
PruneRowsByTs(rows, now_ms) ==
    SelectSeq(rows, LAMBDA x : x.ts > now_ms - WINDOW_HOURS * HOUR_MS)

\* the rows kept of an existing file: next funding or write time inside the window
PruneRows(rows, now_ms) ==
    SelectSeq(rows, LAMBDA x :
        \/ x.nextFundingTimeMs > now_ms - WINDOW_HOURS * HOUR_MS
        \/ x.ts > now_ms - WINDOW_HOURS * HOUR_MS)

\* write_row on a file; io is what the file system does in this call: "ok",
\* "read_fail" (read_parquet raises, swallowed) or "write_fail" (to_parquet
\* raises, the file is left as it was and the exception leaves write_row)
write_row(file, has_pandas, io, now_ms, exchange, symbol, funding_rate, next_ms, interval) ==
    LET row == [ts |-> now_ms, exchange |-> exchange, symbol |-> symbol,
                fundingRate |-> funding_rate, nextFundingTimeMs |-> next_ms,
                interval |-> interval]
        df == IF file.exists /\ io # "read_fail"
              THEN Append(PruneRows(file.rows, now_ms), row)
              ELSE <<row>>
    IN  IF ~has_pandas THEN [file |-> file, raised |-> FALSE]
        ELSE IF io = "write_fail" THEN [file |-> file, raised |-> TRUE]
        ELSE [file |-> [exists |-> TRUE, rows |-> df], raised |-> FALSE]

\* main.py _refresh_loop, lines 37-49: the rows of data forwarded to the sink,
\* one write_row per venue in the order of data.items(), until one raises
ForwardThis(row) ==
    "error" \notin DOMAIN row /\ row.nextFundingTimeMs # 0

RECURSIVE ForwardRows(_, _, _, _, _, _, _)
ForwardRows(file, has_pandas, ios, now_ms, symbol, data, n) ==
    IF n = 0 THEN [file |-> file, raised |-> FALSE, written |-> {}]
    ELSE LET before == ForwardRows(file, has_pandas, ios, now_ms, symbol, data, n - 1)
             row == data[n].val
             w == write_row(before.file, has_pandas, ios[n], now_ms, data[n].key,
                            row.symbol, row.fundingRate, row.nextFundingTimeMs,
                            row.interval)
         IN  IF before.raised \/ ~ForwardThis(row) THEN before
             ELSE [file |-> w.file, raised |-> w.raised,
                   written |-> IF w.raised THEN before.written
                               ELSE before.written \cup {data[n].key}]

-----------------------------------------------------------------------------
\* The inputs: raw symbols a client may send, and upstream responses.

\* the clock at process start (2023-11-14T22:13:20Z)
StartTime == 1700 * 1000000

\* the next funding time the venues report while the model runs
NextFunding == StartTime + 8 * HOUR_MS

RawSymbols ==
    { <<"B","T","C","U","S","D","T">>,            \* BTCUSDT
      <<" ","z","i","l"," ">>,                    \* zil in blanks
      <<"B","T","C"," ","U","S","D","T">>,        \* BTC USDT
      <<>> }                                      \* the empty string

\* the symbols the fan-out is followed for
FanSymbols == { DEFAULT_SYMBOL, <<"E","T","H","-","U","S","D","T">> }

HttpFailures == {"timeout", "connect", "status", "notjson"}

\* Binance fundingInfo responses
BinanceInfo(http, list) == [http |-> http, shape |-> "list", list |-> list]

BinanceInfos(symbol) ==
    { BinanceInfo("timeout", <<>>),
      BinanceInfo("ok", <<>>),
      BinanceInfo("ok", <<[symbol |-> JSym(<<"X","R","P","U","S","D","T">>),
                           fundingIntervalHours |-> JInt(4)]>>),
      BinanceInfo("ok", <<[symbol |-> JSym(symbol), fundingIntervalHours |-> JInt(4)]>>) }

\* Binance premiumIndex responses
BinanceUp(http, shape, dict, list, info) ==
    [http |-> http, shape |-> shape, dict |-> dict, list |-> list, info |-> info]

BinanceItem(symbol, ts) ==
    [symbol |-> JSym(symbol), lastFundingRate |-> JStr("0.0001"), nextFundingTime |-> ts]

BinanceResponses(symbol) ==
    { BinanceUp(h, "dict", BinanceItem(symbol, JInt(0)), <<>>, BinanceInfo("ok", <<>>))
        : h \in HttpFailures }
    \cup { BinanceUp("ok", "dict", BinanceItem(symbol, JInt(NextFunding)), <<>>, i)
        : i \in BinanceInfos(symbol) }
    \cup { BinanceUp("ok", "dict", BinanceItem(symbol, JStr("soon")), <<>>, BinanceInfo("ok", <<>>)),
           BinanceUp("ok", "scalar", BinanceItem(symbol, JInt(0)), <<>>, BinanceInfo("ok", <<>>)),
           BinanceUp("ok", "list", BinanceItem(symbol, JInt(0)), <<>>, BinanceInfo("ok", <<>>)),
           BinanceUp("ok", "list", BinanceItem(symbol, JInt(0)),
                     <<BinanceItem(symbol, JInt(NextFunding))>>, BinanceInfo("ok", <<>>)) }

\* Bybit tickers responses
BybitUp(http, shape, retCode, list) ==
    [http |-> http, shape |-> shape, retCode |-> retCode, list |-> list]

BybitItem(symbol, ts, hours) ==
    [symbol |-> JSym(symbol), fundingRate |-> JStr("0.0002"),
     nextFundingTime |-> ts, fundingIntervalHour |-> hours]

BybitResponses(symbol) ==
    { BybitUp(h, "dict", 0, <<>>) : h \in HttpFailures }
    \cup { BybitUp("ok", "list", 0, <<>>),
           BybitUp("ok", "dict", 10001, <<>>),
           BybitUp("ok", "dict", 0, <<>>),
           BybitUp("ok", "dict", 0, <<BybitItem(symbol, JNumStr(NextFunding), JStr("8"))>>),
           BybitUp("ok", "dict", 0, <<BybitItem(symbol, JNumStr(NextFunding), JMissing)>>),
           BybitUp("ok", "dict", 0, <<BybitItem(symbol, JMissing, JStr("4"))>>),
           BybitUp("ok", "dict", 0, <<BybitItem(symbol, JStr("soon"), JStr("8"))>>) }

\* OKX funding-rate responses
OkxUp(http, shape, code, list) ==
    [http |-> http, shape |-> shape, code |-> code, list |-> list]

OkxItem(symbol, next, curr, prev) ==
    [instId |-> JSym(_symbol_okx(symbol)), fundingRate |-> JStr("0.0003"),
     settFundingRate |-> JStr("0.0004"), nextFundingTime |-> next,
     fundingTime |-> curr, prevFundingTime |-> prev]

OkxResponses(symbol) ==
    { OkxUp(h, "dict", "0", <<>>) : h \in HttpFailures }
    \cup { OkxUp("ok", "list", "0", <<>>),
           OkxUp("ok", "dict", "51001", <<>>),
           OkxUp("ok", "dict", "0", <<>>),
           OkxUp("ok", "dict", "0",
                 <<OkxItem(symbol, JNumStr(NextFunding + 8 * HOUR_MS),
                           JNumStr(NextFunding), JMissing)>>),
           OkxUp("ok", "dict", "0",
                 <<OkxItem(symbol, JNumStr((NextFunding + 4 * HOUR_MS) \div 1000),
                           JMissing, JNumStr(NextFunding \div 1000))>>),
           OkxUp("ok", "dict", "0",
                 <<OkxItem(symbol, JStr("soon"), JMissing, JMissing)>>) }

\* the responses of venue name to a current-funding call for symbol
FundingResponses(name, symbol) ==
    CASE name = "binance" -> BinanceResponses(symbol)
      [] name = "bybit" -> BybitResponses(symbol)
      [] OTHER -> OkxResponses(symbol)

\* funding-rate history responses
HistoryUp(http, shape, code, list) ==
    [http |-> http, shape |-> shape, retCode |-> code,
     code |-> IF code = 0 THEN "0" ELSE "51001", list |-> list]

HistoryItem(ts) ==
    [fundingTime |-> ts, fundingRateTimestamp |-> ts, fundingRateTime |-> JMissing,
     fundingRate |-> JStr("0.0001")]

HistoryResponses(name) ==
    { HistoryUp(h, "dict", 0, <<>>) : h \in HttpFailures }
    \cup { HistoryUp("ok", "scalar", 0, <<>>),
           HistoryUp("ok", "dict", 10001, <<>>),
           HistoryUp("ok", IF name = "binance" THEN "list" ELSE "dict", 0,
                     <<HistoryItem(JNumStr(StartTime)), HistoryItem(JNumStr(StartTime \div 1000))>>),
           HistoryUp("ok", IF name = "binance" THEN "list" ELSE "dict", 0,
                     <<HistoryItem(JStr("then"))>>) }

\* The upstream of one fan-out: a response per venue.  The whole-system
\* specification draws it from these scenarios.
GoodUp(name, symbol) ==
    CASE name = "binance" ->
            BinanceUp("ok", "dict", BinanceItem(symbol, JInt(NextFunding)), <<>>,
                      BinanceInfo("ok", <<>>))
      [] name = "bybit" ->
            BybitUp("ok", "dict", 0, <<BybitItem(symbol, JNumStr(NextFunding), JStr("8"))>>)
      [] OTHER ->
            OkxUp("ok", "dict", "0",
                  <<OkxItem(symbol, JNumStr(NextFunding + 8 * HOUR_MS),
                            JNumStr(NextFunding), JMissing)>>)

DownUp(name) ==
    CASE name = "binance" ->
            BinanceUp("timeout", "dict", BinanceItem(<<>>, JInt(0)), <<>>, BinanceInfo("ok", <<>>))
      [] name = "bybit" -> BybitUp("timeout", "dict", 0, <<>>)
      [] OTHER -> OkxUp("timeout", "dict", "0", <<>>)

\* one venue down, and every venue down
Scenarios(symbol) ==
    { [v \in VenueSet |-> IF v = "okx" THEN DownUp(v) ELSE GoodUp(v, symbol)],
      [v \in VenueSet |-> DownUp(v)] }

HistoryScenarios ==
    { [v \in VenueSet |->
          IF v = "bybit" THEN HistoryUp("timeout", "dict", 0, <<>>)
          ELSE HistoryUp("ok", IF v = "binance" THEN "list" ELSE "dict", 0,
                         <<HistoryItem(JNumStr(StartTime))>>)] }

\* what the file system does in the write_row calls of one refresh cycle
IoOutcomes == {"ok", "read_fail", "write_fail"}

\* one outcome per write_row call of a cycle; without pandas write_row returns
\* before it touches the file system
IoChoices(has_pandas) ==
    IF has_pandas THEN [DOMAIN Venues -> IoOutcomes] ELSE {[i \in DOMAIN Venues |-> "ok"]}

-----------------------------------------------------------------------------
\* Bounds of the model

MaxElapsed == 15     \* the clock stops this long after StartTime

\* the steps of the clock: just under and exactly the TTL / the refresh interval
TickSteps == {FETCH_TTL_MS - 1, FETCH_TTL_MS}

\* the client connections whose handlers run concurrently
Clients == {1, 2}

-----------------------------------------------------------------------------
\* The whole system: request handlers, refresh loop, clock.

\* a handler's response: the JSON body and what it is
Response(kind, body) == [kind |-> kind, body |-> body]

NoResp == Response("none", <<>>)

\* a handler between requests
IdleRequest == [pc |-> "idle", endpoint |-> "none", symbol |-> <<>>]

\* the response a handler returned in the step just taken, and on which path:
\* "reject" (invalid symbol), "cache" (served from the cache; symbol is the
\* normalized symbol), "return" (the awaited fan-out returned; symbol as before)
Reply(endpoint, symbol, path, resp) ==
    [endpoint |-> endpoint, symbol |-> symbol, path |-> path, resp |-> resp]

NoReply == Reply("none", <<>>, "none", NoResp)

\* no function is being applied on its own
NoCall == [fn |-> "none"]

IdleFan ==
    [pc |-> "idle", kind |-> "none", symbol |-> <<>>, settled |-> {}, order |-> <<>>,
     up |-> <<>>, res |-> <<>>, out |-> <<>>]

Init ==
    /\ funding_cache = <<>>
    /\ last_fetch_ms = <<>>
    /\ cache_symbol = DEFAULT_SYMBOL
    /\ now = StartTime
    /\ req = [c \in Clients |-> IdleRequest]
    /\ reply = NoReply
    /\ loop = [pc |-> "start", symbol |-> <<>>, wake |-> 0]
    /\ parquet = [has_pandas |-> FALSE, file |-> NoFile]
    /\ fan = IdleFan
    /\ call = NoCall

\* GET /api/funding, up to its return or its await of fetch_all
FundingRequest(c, raw) ==
    LET symbol == _normalize_symbol(raw)
        tracked == set_requested_symbol(cache_symbol, symbol)
    IN  /\ req[c].pc = "idle"
        /\ UNCHANGED <<now, loop, parquet, fan, call, funding_cache, last_fetch_ms>>
        /\ IF ~SymbolOk(symbol)
           THEN /\ reply' = Reply("funding", <<>>, "reject",
                        Response("error", [error |-> "Invalid symbol: only uppercase Latin letters, digits, hyphen"]))
                /\ UNCHANGED <<cache_symbol, req>>
           ELSE /\ cache_symbol' = tracked
                /\ IF IsFresh(funding_cache, last_fetch_ms, symbol, now)
                   THEN /\ reply' = Reply("funding", symbol, "cache",
                                Response("funding",
                                    get_cached_funding(funding_cache, tracked, symbol)))
                        /\ UNCHANGED req
                   ELSE /\ reply' = NoReply
                        /\ req' = [req EXCEPT ![c] =
                                [pc |-> "fetching", endpoint |-> "funding", symbol |-> symbol]]

\* a mutant of FundingComplete: the handler forwards its snapshot to the
\* history sink as well
FundingCompleteForwarding(c) ==
    /\ req[c].pc = "fetching"
    /\ req[c].endpoint = "funding"
    /\ \E up \in Scenarios(req[c].symbol) :
         LET data == fetch_all(req[c].symbol, up)
         IN  /\ funding_cache' = CachePut(funding_cache, req[c].symbol, data)
             /\ last_fetch_ms' = StampPut(last_fetch_ms, req[c].symbol, now)
             /\ reply' = Reply("funding", req[c].symbol, "return",
                               Response("funding", data))
             /\ parquet' = [parquet EXCEPT !.file =
                    ForwardRows(parquet.file, parquet.has_pandas,
                                [i \in DOMAIN Venues |-> "ok"], now,
                                req[c].symbol, data, Len(data)).file]
    /\ req' = [req EXCEPT ![c] = IdleRequest]
    /\ UNCHANGED <<cache_symbol, now, loop, fan, call>>

\* GET /api/funding, from the return of fetch_all to the handler's return
FundingComplete(c) ==
    /\ req[c].pc = "fetching"
    /\ req[c].endpoint = "funding"
    /\ \E up \in Scenarios(req[c].symbol) :
         LET data == fetch_all(req[c].symbol, up)
         IN  /\ funding_cache' = CachePut(funding_cache, req[c].symbol, data)
             /\ last_fetch_ms' = StampPut(last_fetch_ms, req[c].symbol, now)
             /\ reply' = Reply("funding", req[c].symbol, "return",
                               Response("funding", data))
    /\ req' = [req EXCEPT ![c] = IdleRequest]
    /\ UNCHANGED <<cache_symbol, now, loop, parquet, fan, call>>

\* a mutant of HistoryRequest: the handler records the symbol as /api/funding does
HistoryRequestTracking(c, raw) ==
    LET symbol == _normalize_symbol(raw)
    IN  /\ req[c].pc = "idle"
        /\ UNCHANGED <<now, loop, parquet, fan, call, funding_cache, last_fetch_ms>>
        /\ IF ~SymbolOk(symbol)
           THEN /\ reply' = Reply("history", <<>>, "reject",
                                  Response("error", [error |-> "Invalid symbol"]))
                /\ UNCHANGED <<cache_symbol, req>>
           ELSE /\ cache_symbol' = set_requested_symbol(cache_symbol, symbol)
                /\ reply' = NoReply
                /\ req' = [req EXCEPT ![c] =
                        [pc |-> "fetching", endpoint |-> "history", symbol |-> symbol]]

\* GET /api/funding-history, up to its return or its await
HistoryRequest(c, raw) ==
    LET symbol == _normalize_symbol(raw)
    IN  /\ req[c].pc = "idle"
        /\ UNCHANGED <<now, loop, parquet, fan, call, funding_cache, last_fetch_ms, cache_symbol>>
        /\ IF ~SymbolOk(symbol)
           THEN /\ reply' = Reply("history", <<>>, "reject",
                                  Response("error", [error |-> "Invalid symbol"]))
                /\ UNCHANGED req
           ELSE /\ reply' = NoReply
                /\ req' = [req EXCEPT ![c] =
                        [pc |-> "fetching", endpoint |-> "history", symbol |-> symbol]]

\* GET /api/funding-history, from the return of fetch_all_funding_history on
HistoryComplete(c) ==
    /\ req[c].pc = "fetching"
    /\ req[c].endpoint = "history"
    /\ \E up \in HistoryScenarios :
         reply' = Reply("history", req[c].symbol, "return",
                        Response("history", fetch_all_funding_history(req[c].symbol, up)))
    /\ req' = [req EXCEPT ![c] = IdleRequest]
    /\ UNCHANGED <<funding_cache, last_fetch_ms, cache_symbol, now, loop, parquet, fan, call>>

\* a mutant of RefreshRead: the loop refreshes the default symbol, whatever
\* symbol is tracked
RefreshReadDefault ==
    loop' = [pc |-> "fetching", symbol |-> DEFAULT_SYMBOL, wake |-> 0]

\* _refresh_loop, line 34 and the start of line 35: read the tracked symbol
\* and start the fan-out for it
RefreshRead ==
    loop' = [pc |-> "fetching", symbol |-> cache_symbol, wake |-> 0]

\* startup: the task enters its first cycle
RefreshStart ==
    /\ loop.pc = "start"
    /\ RefreshRead
    /\ reply' = NoReply
    /\ UNCHANGED <<funding_cache, last_fetch_ms, cache_symbol, now, req, parquet, fan, call>>

\* a mutant of RefreshWake: the next cycle begins without waiting for the end
\* of the sleep
RefreshWakeEarly ==
    /\ loop.pc = "sleeping"
    /\ RefreshRead
    /\ reply' = NoReply
    /\ UNCHANGED <<funding_cache, last_fetch_ms, cache_symbol, now, req, parquet, fan, call>>

\* asyncio.sleep(REFRESH_INTERVAL_SEC) returns and the next cycle begins
RefreshWake ==
    /\ loop.pc = "sleeping"
    /\ now >= loop.wake
    /\ RefreshRead
    /\ reply' = NoReply
    /\ UNCHANGED <<funding_cache, last_fetch_ms, cache_symbol, now, req, parquet, fan, call>>

\* a mutant of RefreshCycle: the rows go to the sink before the cache is
\* written, and a sink failure ends the cycle's work
RefreshCycleSinkFirst(up, ios) ==
    LET data == fetch_all(loop.symbol, up)
        sink == ForwardRows(parquet.file, parquet.has_pandas, ios, now,
                            loop.symbol, data, Len(data))
    IN  /\ loop.pc = "fetching"
        /\ IF sink.raised
           THEN UNCHANGED <<funding_cache, last_fetch_ms>>
           ELSE /\ funding_cache' = CachePut(funding_cache, loop.symbol, data)
                /\ last_fetch_ms' = StampPut(last_fetch_ms, loop.symbol, now)
        /\ parquet' = [parquet EXCEPT !.file = sink.file]
        /\ loop' = [loop EXCEPT !.pc = "sleeping", !.wake = now + REFRESH_INTERVAL_SEC]
        /\ reply' = NoReply
        /\ UNCHANGED <<cache_symbol, now, req, fan>>

\* a mutant of RefreshCycle: the snapshot is written under the symbol tracked
\* when the fetch returns
RefreshCycleTracked(up, ios) ==
    LET data == fetch_all(loop.symbol, up)
        sink == ForwardRows(parquet.file, parquet.has_pandas, ios, now,
                            loop.symbol, data, Len(data))
    IN  /\ loop.pc = "fetching"
        /\ funding_cache' = CachePut(funding_cache, cache_symbol, data)
        /\ last_fetch_ms' = StampPut(last_fetch_ms, cache_symbol, now)
        /\ parquet' = [parquet EXCEPT !.file = sink.file]
        /\ loop' = [loop EXCEPT !.pc = "sleeping", !.wake = now + REFRESH_INTERVAL_SEC]
        /\ reply' = NoReply
        /\ UNCHANGED <<cache_symbol, now, req, fan>>

\* _refresh_loop, lines 35-52, when fetch_all returns for the upstream
\* responses up and the file system behaves as ios: the cache is written, the
\* rows are forwarded to the sink, the loop goes to sleep
RefreshCycle(up, ios) ==
    LET data == fetch_all(loop.symbol, up)
        sink == ForwardRows(parquet.file, parquet.has_pandas, ios, now,
                            loop.symbol, data, Len(data))
    IN  /\ loop.pc = "fetching"
        /\ funding_cache' = CachePut(funding_cache, loop.symbol, data)
        /\ last_fetch_ms' = StampPut(last_fetch_ms, loop.symbol, now)
        /\ parquet' = [parquet EXCEPT !.file = sink.file]
        /\ loop' = [loop EXCEPT !.pc = "sleeping", !.wake = now + REFRESH_INTERVAL_SEC]
        /\ reply' = NoReply
        /\ UNCHANGED <<cache_symbol, now, req, fan>>

\* _refresh_loop, lines 35-52, for whatever the venues and the file system do
RefreshFinish ==
    /\ loop.pc = "fetching"
    /\ \E up \in Scenarios(loop.symbol), ios \in IoChoices(parquet.has_pandas) :
         RefreshCycle(up, ios)
    /\ UNCHANGED call

\* time passes
Tick(d) ==
    /\ now + d <= StartTime + MaxElapsed
    /\ now' = now + d
    /\ reply' = NoReply
    /\ UNCHANGED <<funding_cache, last_fetch_ms, cache_symbol, req, loop, parquet, fan, call>>

Next ==
    \/ \E c \in Clients, raw \in RawSymbols : FundingRequest(c, raw)
    \/ \E c \in Clients : FundingComplete(c)
    \/ \E c \in Clients, raw \in RawSymbols : HistoryRequest(c, raw)
    \/ \E c \in Clients : HistoryComplete(c)
    \/ RefreshStart
    \/ RefreshWake
    \/ RefreshFinish
    \/ \E d \in TickSteps : Tick(d)

Spec == Init /\ [][Next]_vars

-----------------------------------------------------------------------------
\* One fetch_all / fetch_all_funding_history call followed task by task: the
\* three coroutines are handed to asyncio.gather together, each settles on
\* its own, and the call goes on when gather returns.

system == <<funding_cache, last_fetch_ms, cache_symbol, now, req, reply, loop, parquet, call>>

\* the state of a task that has not settled
PendingUp == [http |-> "pending"]

PendingResult == Return([t |-> "pending"])

\* the responses venue name may give to a call of the given kind
FanResponses(kind, name, symbol) ==
    IF kind = "funding" THEN FundingResponses(name, symbol) ELSE HistoryResponses(name)

\* tasks[i] run against its upstream
FanTask(kind, name, symbol, up) ==
    IF kind = "funding" THEN FundingTask(name, symbol, up) ELSE HistoryTask(name, symbol, up)

\* the loop after gather
FanFold(kind, results) ==
    IF kind = "funding" THEN FoldFunding(results, Len(Venues))
    ELSE FoldHistory(results, Len(Venues))

\* a mutant of GatherReady: gather returns when the first task settles
GatherFirstCompleted(settled) == settled # {}

\* await asyncio.gather(*tasks, return_exceptions=True) returns when every
\* task has settled
GatherReady(settled) == settled = DOMAIN Venues

\* a mutant of GatherResults: the outcomes in the order the tasks settled
GatherAsCompleted(res, order) == [i \in DOMAIN order |-> res[order[i]]]

\* the list gather returns: results[i] is the outcome of tasks[i], in whatever
\* order the tasks settled
GatherResults(res, order) == res

\* symbol = symbol.upper().replace(" ", ""); tasks = [...]; gather is awaited
FanStart(kind, symbol) ==
    /\ fan.pc = "idle"
    /\ fan' = [pc |-> "running", kind |-> kind,
               symbol |-> StrRemoveSpaces(StrUpper(symbol)),
               settled |-> {}, order |-> <<>>,
               up |-> [i \in DOMAIN Venues |-> PendingUp],
               res |-> [i \in DOMAIN Venues |-> PendingResult],
               out |-> <<>>]
    /\ UNCHANGED system

\* tasks[i] settles: its venue answered r (or failed, or timed out)
FanSettle(i, r) ==
    /\ fan.pc = "running"
    /\ i \notin fan.settled
    /\ fan' = [fan EXCEPT !.settled = @ \cup {i},
                          !.order = Append(@, i),
                          !.up[i] = r,
                          !.res[i] = FanTask(fan.kind, Venues[i], fan.symbol, r)]
    /\ UNCHANGED system

\* gather returns and the result mapping is assembled and returned
FanJoin ==
    /\ fan.pc = "running"
    /\ GatherReady(fan.settled)
    /\ fan' = [fan EXCEPT !.pc = "done",
                          !.out = FanFold(fan.kind, GatherResults(fan.res, fan.order))]
    /\ UNCHANGED system

NextFan ==
    \/ \E kind \in {"funding", "history"}, symbol \in FanSymbols : FanStart(kind, symbol)
    \/ \E i \in DOMAIN Venues :
          \E r \in FanResponses(fan.kind, Venues[i], fan.symbol) : FanSettle(i, r)
    \/ FanJoin

SpecFan == Init /\ [][NextFan]_vars

-----------------------------------------------------------------------------
\* The claims about the request handlers, checked under Spec.

\* a valid symbol in the words of the claims: not empty, every character one
\* of A-Z, 0-9, '-'
ValidChars ==
    {"A","B","C","D","E","F","G","H","I","J","K","L","M","N","O","P","Q","R","S","T",
     "U","V","W","X","Y","Z","0","1","2","3","4","5","6","7","8","9","-"}

ValidSymbol(s) ==
    /\ s # <<>>
    /\ \A i \in DOMAIN s : s[i] \in ValidChars

\* the age of S's cache entry
Age(S) == now - last_fetch_ms[S]

\* no handler and no refresh cycle starts a fan-out in this step
NoFetchStarted ==
    /\ \A d \in Clients : req'[d].pc = "fetching" => req[d].pc = "fetching"
    /\ UNCHANGED <<loop, fan>>

\* C1: a request on /api/funding or /api/funding-history whose normalized
\* symbol is empty or has a character outside A-Z, 0-9, '-' returns an
\* {"error": ...} object, leaves the tracked symbol, every cache entry and
\* every fetch timestamp unchanged, and starts no upstream call.
C1_InvalidSymbolRejected ==
    [][\A c \in Clients, raw \in RawSymbols :
          ( /\ ~ValidSymbol(_normalize_symbol(raw))
            /\ FundingRequest(c, raw) \/ HistoryRequest(c, raw) )
          => /\ reply'.path = "reject"
             /\ reply'.resp.kind = "error"
             /\ DOMAIN reply'.resp.body = {"error"}
             /\ UNCHANGED <<cache_symbol, funding_cache, last_fetch_ms>>
             /\ NoFetchStarted]_vars

\* an invalid request was rejected on /api/funding while the cache held
\* entries and the tracked symbol was not the default
C1_Witness ==
    /\ reply.path = "reject"
    /\ reply.endpoint = "funding"
    /\ funding_cache # <<>>
    /\ cache_symbol # DEFAULT_SYMBOL

\* C2: for a valid symbol S with a cache entry of age < 15,000 ms, a
\* /api/funding request returns exactly the snapshot stored for S, starts no
\* fan-out, and leaves S's entry and its fetch timestamp unchanged.
C2_FreshServedFromCache ==
    [][\A c \in Clients, raw \in RawSymbols :
          LET S == _normalize_symbol(raw)
          IN  ( /\ ValidSymbol(S)
                /\ DictHas(funding_cache, S)
                /\ Age(S) < FETCH_TTL_MS
                /\ FundingRequest(c, raw) )
              => /\ reply'.path = "cache"
                 /\ reply'.resp = Response("funding", DictGet(funding_cache, S))
                 /\ NoFetchStarted
                 /\ DictGet(funding_cache', S) = DictGet(funding_cache, S)
                 /\ last_fetch_ms'[S] = last_fetch_ms[S]]_vars

\* a request was served from a cache of two symbols, the entry served being
\* the second one and one step of the clock short of the TTL
C2_Witness ==
    /\ reply.path = "cache"
    /\ Len(funding_cache) = 2
    /\ funding_cache[2].key = reply.symbol
    /\ funding_cache[1].val # funding_cache[2].val
    /\ Age(reply.symbol) = FETCH_TTL_MS - 1

\* C3: for a valid symbol S with no cache entry, or an entry of age >=
\* 15,000 ms, a /api/funding request itself runs a fan-out for S without
\* waiting for the refresh loop, writes the fetched snapshot as S's entry and
\* returns that same snapshot.
C3_StaleFetchedOnDemand ==
    [][/\ \A c \in Clients, raw \in RawSymbols :
            LET S == _normalize_symbol(raw)
            IN  ( /\ ValidSymbol(S)
                  /\ ~DictHas(funding_cache, S) \/ Age(S) >= FETCH_TTL_MS
                  /\ FundingRequest(c, raw) )
                => /\ reply' = NoReply
                   /\ req'[c] = [pc |-> "fetching", endpoint |-> "funding", symbol |-> S]
       /\ \A c \in Clients :
            FundingComplete(c)
            => /\ reply'.path = "return"
               /\ reply'.symbol = req[c].symbol
               /\ DictHas(funding_cache', req[c].symbol)
               /\ reply'.resp = Response("funding", DictGet(funding_cache', req[c].symbol))
               /\ \E up \in Scenarios(req[c].symbol) :
                     reply'.resp.body = fetch_all(req[c].symbol, up)
               /\ last_fetch_ms'[req[c].symbol] = now]_vars

\* a handler returned a snapshot it fetched itself, with data of at least one
\* venue, while the refresh loop was asleep and not yet due
C3_Witness ==
    /\ reply.path = "return"
    /\ reply.endpoint = "funding"
    /\ "error" \notin DOMAIN DictGet(reply.resp.body, "binance")
    /\ loop.pc = "sleeping"
    /\ loop.wake > now
    /\ now = StartTime + FETCH_TTL_MS - 1

\* C9 as stated: after a valid /api/funding request for S the tracked symbol
\* equals S, when the response was served from the cache and when it was
\* fetched on demand.
C9_TrackedEqualsSAfterRequest ==
    (reply.endpoint = "funding" /\ reply.path \in {"cache", "return"})
    => cache_symbol = reply.symbol

\* C9 as amended: a valid /api/funding request for S sets the tracked symbol
\* to S before the freshness check, on the cache path and on the on-demand
\* path alike; the return of the on-demand fetch leaves the tracked symbol as
\* it is; and while the fetch is awaited only a valid /api/funding request of
\* another client changes it.
C9_TrackedSetBeforeFreshnessCheck ==
    [][/\ \A c \in Clients, raw \in RawSymbols :
            LET S == _normalize_symbol(raw)
            IN  (ValidSymbol(S) /\ FundingRequest(c, raw))
                => /\ cache_symbol' = S
                   /\ reply'.path = "cache" => reply'.symbol = S
                   /\ reply'.path # "cache" => req'[c].symbol = S
       /\ \A c \in Clients : FundingComplete(c) => cache_symbol' = cache_symbol
       /\ \A c \in Clients :
            ( /\ req[c].pc = "fetching"
              /\ req[c].endpoint = "funding"
              /\ cache_symbol' # cache_symbol )
            => \E d \in Clients \ {c}, raw \in RawSymbols :
                  /\ ValidSymbol(_normalize_symbol(raw))
                  /\ FundingRequest(d, raw)
                  /\ cache_symbol' = _normalize_symbol(raw)]_vars

\* an on-demand fetch for a symbol other than the default returned, the
\* tracked symbol still being that symbol
C9_Witness ==
    /\ reply.endpoint = "funding"
    /\ reply.path = "return"
    /\ reply.symbol # DEFAULT_SYMBOL
    /\ cache_symbol = reply.symbol

\* C10 as stated: every valid request, on /api/funding and on
\* /api/funding-history alike, overwrites the tracked symbol with the
\* requested normalized symbol.
C10_EveryValidRequestTracks ==
    [][\A c \in Clients, raw \in RawSymbols :
          ( /\ ValidSymbol(_normalize_symbol(raw))
            /\ FundingRequest(c, raw) \/ HistoryRequest(c, raw) )
          => cache_symbol' = _normalize_symbol(raw)]_vars

\* C10 as amended: every valid /api/funding request overwrites the tracked
\* symbol with the requested normalized symbol, a /api/funding-history
\* request leaves it unchanged, and nothing else changes it: the tracked
\* symbol is always the symbol of the last valid /api/funding request.
C10_TrackedIsLastFundingSymbol ==
    [][/\ \A c \in Clients, raw \in RawSymbols :
            /\ (ValidSymbol(_normalize_symbol(raw)) /\ FundingRequest(c, raw))
               => cache_symbol' = _normalize_symbol(raw)
            /\ HistoryRequest(c, raw) => cache_symbol' = cache_symbol
       /\ \A c \in Clients : HistoryComplete(c) => cache_symbol' = cache_symbol
       /\ cache_symbol' # cache_symbol
          => \E c \in Clients, raw \in RawSymbols :
                /\ ValidSymbol(_normalize_symbol(raw))
                /\ FundingRequest(c, raw)
                /\ cache_symbol' = _normalize_symbol(raw)]_vars

\* a valid /api/funding-history request is under way for a symbol that is
\* not the tracked one, which an earlier /api/funding request had set
C10_Witness ==
    /\ cache_symbol # DEFAULT_SYMBOL
    /\ \E c \in Clients :
          /\ req[c].pc = "fetching"
          /\ req[c].endpoint = "history"
          /\ req[c].symbol # cache_symbol

\* the entry of key K, or nothing when there is none
EntryOf(cache, K) == IF DictHas(cache, K) THEN <<DictGet(cache, K)>> ELSE <<>>

\* C34: every cache entry stored under key S holds a snapshot produced by a
\* fan-out fetch issued for S. An entry changes only when the refresh loop
\* ends the fetch of a cycle that read S at its start, whatever the tracked
\* symbol has become meanwhile, or when a /api/funding handler ends its own
\* fetch for S; and what is stored is what that fetch returned.
C34_EntryHoldsSnapshotFetchedForItsKey ==
    /\ [](\A i \in DOMAIN funding_cache :
            \E up \in Scenarios(funding_cache[i].key) :
               funding_cache[i].val = fetch_all(funding_cache[i].key, up))
    /\ [][\A K \in DictKeys(funding_cache') :
             EntryOf(funding_cache', K) # EntryOf(funding_cache, K) =>
                \/ /\ loop.pc = "fetching"
                   /\ loop'.pc = "sleeping"
                   /\ loop.symbol = K
                   /\ \E up \in Scenarios(K) : DictGet(funding_cache', K) = fetch_all(K, up)
                \/ \E c \in Clients :
                      /\ req[c].pc = "fetching"
                      /\ req[c].endpoint = "funding"
                      /\ req'[c].pc = "idle"
                      /\ req[c].symbol = K
                      /\ reply'.resp.body = DictGet(funding_cache', K)
                      /\ \E up \in Scenarios(K) : DictGet(funding_cache', K) = fetch_all(K, up)
          ]_vars

\* the loop has just written, under the symbol it had read, a snapshot with
\* that symbol's Binance record, while a request had made another symbol
\* the tracked one; that other symbol has no entry
C34_Witness ==
    /\ loop.pc = "sleeping"
    /\ loop.wake = now + REFRESH_INTERVAL_SEC
    /\ cache_symbol # loop.symbol
    /\ DictKeys(funding_cache) = {loop.symbol}
    /\ last_fetch_ms[loop.symbol] = now
    /\ "error" \notin DOMAIN DictGet(DictGet(funding_cache, loop.symbol), "binance")
    /\ DictGet(DictGet(funding_cache, loop.symbol), "binance").symbol = loop.symbol

\* C35: the response of a valid /api/funding request for S is always a
\* snapshot fetched for S. A response served from the cache is S's own
\* entry, which exists; a response of the on-demand path is what the
\* handler's fetch for S returned; the empty placeholder is never a response,
\* and neither is the entry of another symbol in place of S's.
C35_ResponseIsSnapshotFetchedForS ==
    (reply.endpoint = "funding" /\ reply.path \in {"cache", "return"}) =>
        /\ \E up \in Scenarios(reply.symbol) :
              reply.resp.body = fetch_all(reply.symbol, up)
        /\ reply.resp.body # EmptySnapshot
        /\ DictHas(funding_cache, reply.symbol)
        /\ reply.resp.body = DictGet(funding_cache, reply.symbol)

\* a response was served from the cache for a symbol whose entry is the
\* second of two that differ, the tracked symbol's entry having been written
\* by the refresh loop
C35_Witness ==
    /\ reply.endpoint = "funding"
    /\ reply.path = "cache"
    /\ Len(funding_cache) = 2
    /\ funding_cache[2].key = reply.symbol
    /\ funding_cache[1].val # funding_cache[2].val
    /\ loop.pc = "sleeping"
    /\ loop.symbol = funding_cache[1].key

\* C36: a fan-out result in which all three venues are error records is
\* written to the cache like any other snapshot. Written by the refresh loop
\* or by a handler, it becomes the entry of its symbol, in place of whatever
\* was stored, and the fetch timestamp becomes the time of the write; and a
\* valid /api/funding request for a symbol whose entry is such a snapshot is
\* served that entry from the cache while the entry is younger than
\* 15,000 ms, and fetches on demand from then on.
C36_AllErrorSnapshotCachedAndServed ==
    [][ /\ (loop.pc = "fetching" /\ loop'.pc = "sleeping") =>
              \A up \in Scenarios(loop.symbol), ios \in IoChoices(parquet.has_pandas) :
                 (AllErrors(fetch_all(loop.symbol, up)) /\ RefreshCycle(up, ios)) =>
                    /\ DictGet(funding_cache', loop.symbol) = fetch_all(loop.symbol, up)
                    /\ last_fetch_ms'[loop.symbol] = now
        /\ \A c \in Clients :
              (FundingComplete(c) /\ AllErrors(reply'.resp.body)) =>
                 /\ DictGet(funding_cache', req[c].symbol) = reply'.resp.body
                 /\ last_fetch_ms'[req[c].symbol] = now
        /\ \A c \in Clients, raw \in RawSymbols :
              LET S == _normalize_symbol(raw)
              IN  ( /\ FundingRequest(c, raw)
                    /\ DictHas(funding_cache, S)
                    /\ AllErrors(DictGet(funding_cache, S)) ) =>
                       IF now - last_fetch_ms[S] < 15
                       THEN /\ reply'.path = "cache"
                            /\ reply'.resp.body = DictGet(funding_cache, S)
                            /\ req' = req
                       ELSE /\ reply' = NoReply
                            /\ req'[c].pc = "fetching"
      ]_vars

\* a request has just been served, from the cache, a snapshot of three error
\* records written 14,000 ms earlier
C36_Witness ==
    /\ reply.endpoint = "funding"
    /\ reply.path = "cache"
    /\ AllErrors(reply.resp.body)
    /\ Len(reply.resp.body) = 3
    /\ now - last_fetch_ms[reply.symbol] = FETCH_TTL_MS - 1

\* C37: the fetch timestamp is the time of the cache write, not the time the
\* fetch started. When a fan-out for S ends, in a handler or in the refresh
\* loop, its snapshot becomes S's entry and S's timestamp becomes the present
\* time, whenever the fan-out started and whatever another fan-out for S,
\* started later and ended earlier, had stored; and a valid /api/funding
\* request for S is served from the cache exactly while less than 15,000 ms
\* have passed since that timestamp.
C37_StampIsTimeOfWriteLastWriterWins ==
    [][ /\ \A c \in Clients :
              FundingComplete(c) =>
                 /\ DictGet(funding_cache', req[c].symbol) = reply'.resp.body
                 /\ last_fetch_ms'[req[c].symbol] = now
                 /\ IsFresh(funding_cache', last_fetch_ms', req[c].symbol, now + FETCH_TTL_MS - 1)
                 /\ ~IsFresh(funding_cache', last_fetch_ms', req[c].symbol, now + FETCH_TTL_MS)
        /\ (loop.pc = "fetching" /\ loop'.pc = "sleeping") =>
              /\ \E up \in Scenarios(loop.symbol) :
                    DictGet(funding_cache', loop.symbol) = fetch_all(loop.symbol, up)
              /\ last_fetch_ms'[loop.symbol] = now
        /\ \A c \in Clients, raw \in RawSymbols :
              LET S == _normalize_symbol(raw)
              IN  (FundingRequest(c, raw) /\ DictHas(funding_cache, S)) =>
                     (reply'.path = "cache" <=> now - last_fetch_ms[S] < 15)
      ]_vars

\* two fan-outs for the same symbol overlapped: one handler's fetch has just
\* ended, 15,000 ms after the refresh loop wrote the symbol's entry, its
\* snapshot is the entry now, stamped with the present time, and the other
\* handler's fetch for the symbol is still in flight
C37_Witness ==
    /\ reply.endpoint = "funding"
    /\ reply.path = "return"
    /\ \E c \in Clients :
          /\ req[c].pc = "fetching"
          /\ req[c].endpoint = "funding"
          /\ req[c].symbol = reply.symbol
    /\ loop.pc = "sleeping"
    /\ loop.symbol = reply.symbol
    /\ loop.wake = now
    /\ last_fetch_ms[reply.symbol] = now
    /\ DictGet(funding_cache, reply.symbol) = reply.resp.body

-----------------------------------------------------------------------------
\* The claims about the fan-out, checked under SpecFan.

\* a fetch_all call has returned
FundingDone == fan.pc = "done" /\ fan.kind = "funding"

\* what the body of venue i's adapter did with the venue's response
FanTry(i) ==
    CASE Venues[i] = "binance" -> fetch_binance_try(fan.symbol, fan.up[i])
      [] Venues[i] = "bybit" -> fetch_bybit_try(fan.symbol, fan.up[i])
      [] OTHER -> fetch_okx_try(fan.symbol, fan.up[i])

\* the outcomes of a venue: its call timed out; it threw (a timeout, another
\* transport error, a malformed payload); it failed softly (the venue
\* answered, with nothing usable); it succeeded
TimedOut(i) == fan.up[i].http = "timeout"
Threw(i) == FanTry(i).raised
SoftFailed(i) == ~FanTry(i).raised /\ FanTry(i).val = None
Succeeded(i) == ~FanTry(i).raised /\ FanTry(i).val # None

\* C4: for every combination of per-venue outcomes fetch_all returns a
\* mapping with exactly the keys binance, bybit, okx; a venue that failed or
\* timed out has a record with an error field, a venue that succeeded has its
\* normal record, without an error field.
C4_ThreeKeysErrorsMarked ==
    FundingDone =>
        /\ Len(fan.out) = 3
        /\ DictKeys(fan.out) = {"binance", "bybit", "okx"}
        /\ \A i \in DOMAIN Venues :
              LET rec == DictGet(fan.out, Venues[i])
              IN  /\ (Threw(i) \/ SoftFailed(i) \/ TimedOut(i)) => "error" \in DOMAIN rec
                  /\ Succeeded(i) => rec = FanTry(i).val /\ "error" \notin DOMAIN rec

\* exactly one venue timed out and the other two succeeded
C4_Witness ==
    /\ FundingDone
    /\ \E i \in DOMAIN Venues :
          /\ TimedOut(i)
          /\ \A j \in DOMAIN Venues \ {i} : Succeeded(j)

\* the Binance price call answered with a payload the adapter can use
BinancePriceOk(r) == ~fetch_binance_try(fan.symbol, r).raised

\* the interval lookup failed, or its list does not name the symbol
BinanceLookupMissed(r) ==
    \/ r.info.http # "ok"
    \/ \A i \in DOMAIN r.info.list :
          SymbolOr(r.info.list[i].symbol, <<>>) # fan.symbol

\* C31: when the Binance price call succeeds and the interval lookup fails,
\* or does not list the symbol, the Binance adapter still returns a normal
\* record, without an error field, whose interval is "8h", and fetch_all
\* hands that record on unchanged.
C31_BinanceIntervalDefaultsTo8h ==
    \A i \in DOMAIN Venues :
       ( /\ fan.kind = "funding"
         /\ Venues[i] = "binance"
         /\ i \in fan.settled
         /\ BinancePriceOk(fan.up[i])
         /\ BinanceLookupMissed(fan.up[i]) )
       => /\ ~fan.res[i].raised
          /\ fan.res[i].val # None
          /\ "error" \notin DOMAIN fan.res[i].val
          /\ fan.res[i].val.interval = "8h"
          /\ fan.res[i].val.exchange = "binance"
          /\ FundingDone => DictGet(fan.out, "binance") = fan.res[i].val

\* fetch_all returned a Binance record with the price of the symbol after a
\* lookup that answered with a list naming another symbol only
C31_Witness ==
    /\ FundingDone
    /\ fan.up[1].http = "ok"
    /\ fan.up[1].info.http = "ok"
    /\ fan.up[1].info.list # <<>>
    /\ BinanceLookupMissed(fan.up[1])
    /\ DictGet(fan.out, "binance").nextFundingTimeMs = NextFunding
    /\ DictGet(fan.out, "binance").interval = "8h"

\* C5: the three adapter calls of a fetch_all run concurrently; a venue's
\* failure or timeout neither cancels nor delays the other two (each pending
\* call can still settle, with any of its outcomes); fetch_all returns only
\* when all three have settled, never with a subset.
C5_AllSettleBeforeReturn ==
    /\ fan.pc = "done" => fan.settled = DOMAIN Venues /\ Len(fan.out) = 3
    /\ (fan.pc = "running" /\ fan.settled # DOMAIN Venues) => ~ENABLED FanJoin
    /\ fan.pc = "running" =>
          \A i \in DOMAIN Venues \ fan.settled :
             \A r \in FanResponses(fan.kind, Venues[i], fan.symbol) :
                ENABLED FanSettle(i, r)

\* a fetch_all returned in which OKX timed out first and Binance and Bybit
\* settled after it, with data
C5_Witness ==
    /\ FundingDone
    /\ fan.order = <<3, 1, 2>>
    /\ TimedOut(3)
    /\ Succeeded(1)
    /\ Succeeded(2)

\* C6: in the result of fetch_all a venue whose adapter call throws or times
\* out has an error record whose error field is the exception message, and
\* "No data" marks a venue that returned no usable payload.
C6_ErrorIsExceptionMessage ==
    FundingDone =>
        \A i \in DOMAIN Venues :
           LET rec == DictGet(fan.out, Venues[i])
           IN  /\ Threw(i) => rec.error = FanTry(i).exc
               /\ SoftFailed(i) => rec.error = "No data"

\* C7: for every completion order, the record under key k of the fetch_all
\* result is the outcome of venue k's own adapter call, and the keys are
\* assembled in the order binance, bybit, okx.
C7_OwnOutcomeFixedOrder ==
    FundingDone =>
        /\ [i \in DOMAIN fan.out |-> fan.out[i].key] = <<"binance", "bybit", "okx">>
        /\ \A i \in DOMAIN Venues :
              /\ fan.out[i].val.exchange = Venues[i]
              /\ Succeeded(i) <=> "error" \notin DOMAIN fan.out[i].val
              /\ Succeeded(i) => fan.out[i].val = FanTry(i).val

\* the calls settled in the order bybit, okx, binance, with three different
\* outcomes: Binance succeeded, Bybit failed softly, OKX threw
C7_Witness ==
    /\ FundingDone
    /\ fan.order = <<2, 3, 1>>
    /\ Succeeded(1)
    /\ SoftFailed(2)
    /\ Threw(3)

\* the venue's answer to a history call is a failure: a transport error, a
\* body of the wrong JSON type, or a non-zero code in the venue's envelope
HistoryFailed(i) ==
    \/ fan.up[i].http # "ok"
    \/ fan.up[i].shape # (IF Venues[i] = "binance" THEN "list" ELSE "dict")
    \/ Venues[i] # "binance" /\ fan.up[i].retCode # 0

\* C8: for a valid symbol and any combination of transport errors, non-zero
\* envelope codes and malformed or missing payload fields, no adapter call
\* raises, and the fan-out of /api/funding and of /api/funding-history
\* returns a venue-keyed result in which a failure is data: an error record,
\* or an empty list.
C8_FailuresAreData ==
    /\ ValidSymbol(fan.symbol) \/ fan.pc = "idle"
    /\ \A i \in fan.settled : ~fan.res[i].raised
    /\ fan.pc = "done" =>
          /\ [i \in DOMAIN fan.out |-> fan.out[i].key] = Venues
          /\ \A i \in DOMAIN Venues :
                LET rec == fan.out[i].val
                IN  IF fan.kind = "funding"
                    THEN (~Succeeded(i)) =>
                            /\ DOMAIN rec = {"exchange", "error", "fundingRate",
                                             "nextFundingTimeMs", "interval"}
                            /\ rec.exchange = Venues[i]
                    ELSE /\ \A j \in DOMAIN rec :
                              DOMAIN rec[j] = {"fundingTime", "fundingRate"}
                         /\ HistoryFailed(i) => rec = <<>>

\* a fetch_all returned after a malformed Binance payload, a non-zero Bybit
\* code and an OKX transport error
C8_Witness ==
    /\ FundingDone
    /\ fan.up[1].http = "ok" /\ Threw(1)
    /\ fan.up[2].http = "ok" /\ fan.up[2].retCode # 0
    /\ fan.up[3].http = "connect"

HistoryDone == fan.pc = "done" /\ fan.kind = "history"

\* what venue i's history adapter returned for the venue's response
HistoryAdapter(i) ==
    CASE Venues[i] = "binance" -> fetch_funding_history_binance(fan.symbol, fan.up[i])
      [] Venues[i] = "bybit" -> fetch_funding_history_bybit(fan.symbol, fan.up[i])
      [] OTHER -> fetch_funding_history_okx(fan.symbol, fan.up[i])

\* venue i's history call failed in some way: as HistoryFailed, or, for the
\* venues whose adapter converts the time with int(), a point whose time does
\* not spell an integer
HistoryCallFailed(i) ==
    \/ HistoryFailed(i)
    \/ /\ Venues[i] # "okx"
       /\ \E j \in DOMAIN fan.up[i].list :
             fan.up[i].list[j].fundingTime.t \notin {"int", "numstr"}

\* C24: for every combination of per-venue outcomes fetch_all_funding_history
\* returns exactly the keys binance, bybit, okx, each with a list; a venue
\* whose history call failed in any way has the empty list, and every other
\* venue has exactly the list its adapter returned, one point per point of
\* the venue's answer.
C24_HistoryThreeListsFailuresEmpty ==
    HistoryDone =>
        /\ [i \in DOMAIN fan.out |-> fan.out[i].key] = <<"binance", "bybit", "okx">>
        /\ \A i \in DOMAIN Venues :
              LET list == fan.out[i].val
              IN  /\ DOMAIN list = 1..Len(list)
                  /\ HistoryCallFailed(i) => list = <<>>
                  /\ ~HistoryCallFailed(i) =>
                        /\ list = HistoryAdapter(i)
                        /\ Len(list) = Len(fan.up[i].list)

\* Bybit's history call timed out, Binance and OKX answered with two points
\* each
C24_Witness ==
    /\ HistoryDone
    /\ fan.up[2].http = "timeout"
    /\ fan.out[2].val = <<>>
    /\ Len(fan.out[1].val) = 2
    /\ Len(fan.out[3].val) = 2

-----------------------------------------------------------------------------
\* _normalize_symbol applied on its own, once and then to its own result.

\* the longest beginning of a raw symbol
MaxPrefixLen == 3

RECURSIVE SeqsUpTo(_, _)
SeqsUpTo(S, n) ==
    IF n = 0 THEN {<<>>}
    ELSE LET shorter == SeqsUpTo(S, n - 1)
         IN  shorter \cup {Append(q, x) : q \in shorter, x \in S}

\* raw symbols: a beginning of letters, digits, hyphens and blanks, and an end
NormInputs ==
    {q \o e : q \in SeqsUpTo({"z", "B", "1", "-", " "}, MaxPrefixLen),
              e \in {<<>>, USDT, <<"u","s","d","t">>, <<"-","U","S","D">>, <<"U","S","D">>}}

\* a caller hands a raw symbol to _normalize_symbol
NormInput(raw) ==
    /\ call = NoCall
    /\ call' = [fn |-> "input", raw |-> raw]
    /\ UNCHANGED <<funding_cache, last_fetch_ms, cache_symbol, now, req, reply, loop, parquet, fan>>

\* _normalize_symbol(raw)
NormOnce ==
    /\ call.fn = "input"
    /\ call' = [fn |-> "once", raw |-> call.raw, out |-> _normalize_symbol(call.raw)]
    /\ UNCHANGED <<funding_cache, last_fetch_ms, cache_symbol, now, req, reply, loop, parquet, fan>>

\* _normalize_symbol(_normalize_symbol(raw))
NormTwice ==
    /\ call.fn = "once"
    /\ call' = [fn |-> "twice", raw |-> call.raw, out |-> call.out,
                again |-> _normalize_symbol(call.out)]
    /\ UNCHANGED <<funding_cache, last_fetch_ms, cache_symbol, now, req, reply, loop, parquet, fan>>

\* routers/funding.py funding, lines 30-32: the normalized symbol is tested and
\* the request goes on (ok) or gets the error object
NormAccept ==
    /\ call.fn = "once"
    /\ call' = [fn |-> "accept", raw |-> call.raw, out |-> call.out,
                ok |-> SymbolOk(call.out)]
    /\ UNCHANGED <<funding_cache, last_fetch_ms, cache_symbol, now, req, reply, loop, parquet, fan>>

\* services/exchange_fetcher.py fetch_okx, line 136: the OKX instrument of an
\* accepted symbol
NormOkx ==
    /\ call.fn = "accept"
    /\ call.ok
    /\ call' = [fn |-> "okx", raw |-> call.raw, out |-> call.out,
                inst |-> _symbol_okx(call.out)]
    /\ UNCHANGED <<funding_cache, last_fetch_ms, cache_symbol, now, req, reply, loop, parquet, fan>>

NextNorm ==
    \/ \E raw \in NormInputs : NormInput(raw)
    \/ NormOnce
    \/ NormTwice
    \/ NormAccept
    \/ NormOkx

SpecNorm == Init /\ [][NextNorm]_vars

\* letters, digits and the hyphen
SymbolChars ==
    {"a","b","c","d","e","f","g","h","i","j","k","l","m","n","o","p","q","r","s","t",
     "u","v","w","x","y","z"} \cup ValidChars

\* C19: for every raw symbol made only of letters, digits and hyphens,
\* normalize(normalize(s)) = normalize(s).
C19_NormalizeIdempotent ==
    (call.fn = "twice" /\ \A i \in DOMAIN call.raw : call.raw[i] \in SymbolChars)
    => call.again = call.out

\* a lower-case ticker of letters and digits got USDT appended by the first
\* application and went through the second
C19_Witness ==
    /\ call.fn = "twice"
    /\ call.raw = <<"z", "1", "B">>
    /\ call.out = <<"Z", "1", "B", "U", "S", "D", "T">>
    /\ call.again = call.out

\* C20 as stated: the result is the upper-cased symbol, with USDT appended
\* exactly when the upper-cased symbol is non-empty, has no hyphen and does
\* not end in USDT.
C20_UpperThenUSDT ==
    call.fn = "once" =>
        LET u == StrUpper(call.raw)
        IN  call.out = IF u # <<>> /\ "-" \notin Range(u) /\ ~StrEndsWith(u, USDT)
                       THEN u \o USDT
                       ELSE u

\* C20 as amended: the result is the upper-cased symbol without its leading
\* and trailing whitespace, with USDT appended exactly when that is non-empty,
\* has no hyphen and does not end in USDT.
C20_UpperStripThenUSDT ==
    call.fn = "once" =>
        LET u == StrStrip(StrUpper(call.raw))
            appended == Len(call.out) = Len(u) + 4
        IN  /\ SubSeq(call.out, 1, Len(u)) = u
            /\ appended \/ call.out = u
            /\ appended <=> (u # <<>> /\ "-" \notin Range(u) /\ ~StrEndsWith(u, USDT))
            /\ appended => SubSeq(call.out, Len(u) + 1, Len(u) + 4) = <<"U","S","D","T">>

\* a hyphenated lower-case symbol came back upper-cased, nothing appended
C20_Witness ==
    /\ call.fn = "once"
    /\ call.raw = <<"B", "-", "u", "s", "d", "t">>
    /\ call.out = <<"B", "-", "U", "S", "D", "T">>

\* C21 as stated: a raw symbol is accepted if and only if, after upper-casing,
\* it consists only of A-Z, 0-9 and '-'.
C21_AcceptedIffUpperAllowed ==
    call.fn = "accept" =>
        (call.ok <=> \A i \in DOMAIN call.raw : StrUpper(call.raw)[i] \in ValidChars)

\* C21 as amended: a raw symbol is accepted if and only if, after upper-casing
\* and dropping the leading and trailing whitespace, it is non-empty and
\* consists only of A-Z, 0-9 and '-'.
C21_AcceptedIffUpperStrippedAllowed ==
    call.fn = "accept" =>
        LET u == StrStrip(StrUpper(call.raw))
        IN  call.ok <=> (u # <<>> /\ \A i \in DOMAIN u : u[i] \in ValidChars)

\* a lower-case ticker between blanks was accepted
C21_Witness ==
    /\ call.fn = "accept"
    /\ call.raw = <<" ", "z", " ">>
    /\ call.ok

\* C22: for every valid normalized symbol, _symbol_okx maps a symbol with a
\* hyphen to the symbol followed by -SWAP, and a hyphen-free symbol ending in
\* USDT to BASE-USDT-SWAP, BASE being the symbol without its trailing USDT.
C22_OkxInstrumentOfSymbol ==
    call.fn = "okx" =>
        LET S == call.out
        IN  /\ "-" \in Range(S) => call.inst = S \o <<"-","S","W","A","P">>
            /\ ("-" \notin Range(S) /\ StrEndsWith(S, <<"U","S","D","T">>)) =>
                   call.inst = SubSeq(S, 1, Len(S) - 4)
                                  \o <<"-","U","S","D","T","-","S","W","A","P">>

-----------------------------------------------------------------------------
\* app_state.py on its own: its functions called in any order by any caller.

\* what a caller may pass as a symbol: upper and lower case, padded, with a
\* blank inside, empty, hyphenated
StateSymbols ==
    { DEFAULT_SYMBOL,
      <<" ","z","i","l","u","s","d","t"," ">>,
      <<"E","T","H","-","U","S","D","T">>,
      <<"B","T","C"," ","U","S","D","T">>,
      <<>> }

\* the symbols snapshots are written for
PutSymbols == {DEFAULT_SYMBOL, <<" ","z","i","l","u","s","d","t"," ">>}

\* the snapshots a fan-out for symbol may have produced
Snapshots(symbol) == {fetch_all(CacheKey(symbol), up) : up \in Scenarios(CacheKey(symbol))}

\* app_state.set_requested_symbol(symbol)
StateSetRequested(symbol) ==
    /\ cache_symbol' = set_requested_symbol(cache_symbol, symbol)
    /\ call' = [fn |-> "set_requested_symbol", symbol |-> symbol, at |-> now]
    /\ UNCHANGED <<funding_cache, last_fetch_ms, now, req, reply, loop, parquet, fan>>

\* app_state.set_funding_cache(symbol, data)
StatePut(symbol) ==
    /\ \E data \in Snapshots(symbol) :
          /\ funding_cache' = CachePut(funding_cache, symbol, data)
          /\ call' = [fn |-> "set_funding_cache", symbol |-> symbol, at |-> now,
                      data |-> data]
    /\ last_fetch_ms' = StampPut(last_fetch_ms, symbol, now)
    /\ UNCHANGED <<cache_symbol, now, req, reply, loop, parquet, fan>>

\* app_state.get_cached_funding(symbol)
StateGet(symbol) ==
    /\ call' = [fn |-> "get_cached_funding", symbol |-> symbol, at |-> now,
                out |-> get_cached_funding(funding_cache, cache_symbol, symbol)]
    /\ UNCHANGED <<funding_cache, last_fetch_ms, cache_symbol, now, req, reply, loop,
                   parquet, fan>>

\* the freshness test of routers/funding.py, lines 36-39, at the current time
StateCheck(symbol) ==
    /\ call' = [fn |-> "fresh", symbol |-> symbol, at |-> now,
                out |-> IsFresh(funding_cache, last_fetch_ms, symbol, now)]
    /\ UNCHANGED <<funding_cache, last_fetch_ms, cache_symbol, now, req, reply, loop,
                   parquet, fan>>

NextState ==
    \/ \E symbol \in StateSymbols : StateSetRequested(symbol)
    \/ \E symbol \in PutSymbols : StatePut(symbol)
    \/ \E symbol \in StateSymbols : StateGet(symbol)
    \/ \E symbol \in StateSymbols : StateCheck(symbol)
    \/ \E d \in TickSteps : Tick(d)

SpecState == Init /\ [][NextState]_vars

-----------------------------------------------------------------------------
\* Claims checked under SpecState.

\* C11: the tracked symbol is BTCUSDT at process start and, in every state, a
\* non-empty string made only of A-Z, 0-9 and '-': no operation clears it.
C11_TrackedSymbolAlwaysValid ==
    /\ cache_symbol = <<"B","T","C","U","S","D","T">>
    /\ [](ValidSymbol(cache_symbol))

\* set_requested_symbol was offered a blank-carrying, an empty and a valid
\* symbol: the tracked symbol is the valid one, no longer the default
C11_Witness ==
    /\ call # NoCall
    /\ call.fn = "set_requested_symbol"
    /\ ~ValidSymbol(CacheKey(call.symbol))
    /\ cache_symbol = <<"Z","I","L","U","S","D","T">>

\* C13: with S's last put at time t0 = last_fetch_ms[S], the freshness test
\* made at t0 + D is true exactly when D < 15,000 ms (15 units), and
\* get_cached_funding(S) still returns S's entry when D >= 15,000 ms.
C13_FreshBelowTtlStaleStillReturned ==
    (call # NoCall /\ call.at = now /\ DictHas(funding_cache, CacheKey(call.symbol))) =>
        LET S == CacheKey(call.symbol)
            D == now - last_fetch_ms[S]
        IN  /\ call.fn = "fresh" => (call.out <=> D < 15)
            /\ (call.fn = "get_cached_funding" /\ D >= 15) =>
                   call.out = DictGet(funding_cache, S)

\* the test made exactly 15,000 ms after the put says stale
C13_Witness ==
    /\ call # NoCall
    /\ call.fn = "fresh"
    /\ call.at = now
    /\ DictHas(funding_cache, CacheKey(call.symbol))
    /\ now - last_fetch_ms[CacheKey(call.symbol)] = 15
    /\ call.out = FALSE

\* C14: get_cached_funding for a symbol X that has no entry returns, when the
\* cache is not empty, the entry of the tracked symbol if it has one and
\* otherwise one of the existing entries; it returns the empty per-venue
\* placeholder only when the cache holds no entry at all.
C14_FallbackToTrackedThenAny ==
    (/\ call # NoCall
     /\ call.fn = "get_cached_funding"
     /\ call.at = now
     /\ CacheKey(call.symbol) \notin DictKeys(funding_cache)) =>
        /\ (funding_cache # <<>> /\ cache_symbol \in DictKeys(funding_cache)) =>
               call.out = DictGet(funding_cache, cache_symbol)
        /\ (funding_cache # <<>> /\ cache_symbol \notin DictKeys(funding_cache)) =>
               \E i \in DOMAIN funding_cache : call.out = funding_cache[i].val
        /\ (call.out = <<[key |-> "binance", val |-> <<>>],
                         [key |-> "bybit", val |-> <<>>],
                         [key |-> "okx", val |-> <<>>]>>) <=> funding_cache = <<>>

\* an unseen symbol is read while the cache holds two entries and the tracked
\* symbol's entry is not the first one: the tracked symbol's entry is returned
C14_Witness ==
    /\ call # NoCall
    /\ call.fn = "get_cached_funding"
    /\ call.at = now
    /\ CacheKey(call.symbol) \notin DictKeys(funding_cache)
    /\ Len(funding_cache) = 2
    /\ funding_cache[2].key = cache_symbol
    /\ call.out = funding_cache[2].val
    /\ call.out # funding_cache[1].val

\* C15: set_funding_cache(S, snap) replaces S's entry with snap and stamps S
\* with the current time; every other symbol's entry and timestamp and the
\* tracked symbol stay as they were; and no step of any operation removes an
\* entry: the set of cached symbols never shrinks.
C15_PutReplacesOneEntryNoEviction ==
    [][ /\ DictKeys(funding_cache) \subseteq DictKeys(funding_cache')
        /\ \A symbol \in PutSymbols :
             StatePut(symbol) =>
                LET S == CacheKey(symbol)
                IN  /\ S \in DictKeys(funding_cache')
                    /\ DictGet(funding_cache', S) = call'.data
                    /\ last_fetch_ms'[S] = now
                    /\ cache_symbol' = cache_symbol
                    /\ DictKeys(funding_cache') = DictKeys(funding_cache) \cup {S}
                    /\ DOMAIN last_fetch_ms' = DOMAIN last_fetch_ms \cup {S}
                    /\ \A T \in DictKeys(funding_cache) \ {S} :
                          /\ DictGet(funding_cache', T) = DictGet(funding_cache, T)
                          /\ last_fetch_ms'[T] = last_fetch_ms[T]
      ]_vars

\* a put has replaced an older, different snapshot of its symbol at a later
\* time while another symbol's entry, stamped earlier, is still there
C15_Witness ==
    /\ call # NoCall
    /\ call.fn = "set_funding_cache"
    /\ call.at = now
    /\ Len(funding_cache) = 2
    /\ \E S \in DictKeys(funding_cache), T \in DictKeys(funding_cache) :
          /\ S = CacheKey(call.symbol)
          /\ T # S
          /\ DictGet(funding_cache, S) = call.data
          /\ last_fetch_ms[S] = now
          /\ last_fetch_ms[T] < now
          /\ funding_cache[1].key = S

-----------------------------------------------------------------------------
\* Claims about the cache under the interleavings of Spec.

\* C12: whatever the interleaving of the handlers' writes and the refresh
\* loop's writes, the cache holds at most one entry per normalized symbol, and
\* the timestamp of a symbol never decreases from one write to the next.
C12_OneEntryPerSymbolStampsMonotone ==
    /\ [](/\ Cardinality(DictKeys(funding_cache)) = Len(funding_cache)
          /\ \A S \in DictKeys(funding_cache) : S = _normalize_symbol(S))
    /\ [][\A S \in DOMAIN last_fetch_ms :
             /\ S \in DOMAIN last_fetch_ms'
             /\ last_fetch_ms'[S] >= last_fetch_ms[S]]_vars

\* a handler has just written the symbol that the refresh loop wrote in its
\* last cycle, at a later time
C12_Witness ==
    /\ reply.endpoint = "funding"
    /\ reply.path = "return"
    /\ loop.pc = "sleeping"
    /\ loop.symbol = reply.symbol
    /\ loop.wake - REFRESH_INTERVAL_SEC < now
    /\ last_fetch_ms[reply.symbol] = now
    /\ Len(funding_cache) = 2

\* C16: under any interleaving of a handler's fetch and a background refresh
\* of the same symbol, the entry of every cached symbol is one complete
\* snapshot as a single fan-out returns it, never a mix of two; the symbols
\* that have a snapshot are exactly those that have a timestamp; and a step
\* that writes a symbol's snapshot or timestamp leaves the timestamp equal to
\* the time of that write.
C16_WholeSnapshotWithItsOwnStamp ==
    /\ [](/\ DictKeys(funding_cache) = DOMAIN last_fetch_ms
          /\ \A i \in DOMAIN funding_cache :
                \E up \in Scenarios(funding_cache[i].key) :
                   funding_cache[i].val = fetch_all(funding_cache[i].key, up))
    /\ [][\A S \in DictKeys(funding_cache') :
             (\/ S \notin DictKeys(funding_cache)
              \/ DictGet(funding_cache', S) # DictGet(funding_cache, S)
              \/ last_fetch_ms'[S] # last_fetch_ms[S]) =>
                last_fetch_ms'[S] = now]_vars

\* the refresh loop has just written S while a handler's fan-out for S, begun
\* before that write, is still in flight
C16_Witness ==
    /\ loop.pc = "sleeping"
    /\ loop.wake = now + REFRESH_INTERVAL_SEC
    /\ last_fetch_ms[loop.symbol] = now
    /\ \E c \in Clients :
          /\ req[c].pc = "fetching"
          /\ req[c].endpoint = "funding"
          /\ req[c].symbol = loop.symbol

\* C26: in every refresh cycle, the first one after process start included,
\* the loop reads the tracked symbol and starts the fan-out only when its
\* sleep of REFRESH_INTERVAL_SEC is over, and it writes the cache (and goes to
\* sleep) only from a fetch that has returned.
C26_SleepBeforeEveryFetch ==
    [][ /\ (loop'.pc = "fetching" /\ loop.pc # "fetching") =>
              /\ loop.pc = "sleeping"
              /\ now >= loop.wake
              /\ loop'.symbol = cache_symbol
        /\ (loop'.pc = "sleeping" /\ loop.pc # "sleeping") =>
              /\ loop.pc = "fetching"
              /\ loop'.wake = now + 15
      ]_vars

-----------------------------------------------------------------------------
\* The refresh loop of main.py with the history sink present or absent, one
\* client reading the default symbol, and the scheduling the event loop gives:
\* a task that can run is run, a sleep ends, a fan-out returns (every HTTP call
\* has a timeout), the clock moves on.

\* what a cycle's two guarded steps did: fetch is "returned" or "raised",
\* sink is "done", "raised" or "none"
CycleOutcome(fetch, sink) ==
    [fn |-> "_refresh_loop", fetch |-> fetch, sink |-> sink, at |-> now]

\* the loop's sink step for one cycle: did a write_row call raise
SinkRaised(up, ios) ==
    LET data == fetch_all(loop.symbol, up)
    IN  ForwardRows(parquet.file, parquet.has_pandas, ios, now,
                    loop.symbol, data, Len(data)).raised

\* HAS_PANDAS is fixed at import: pandas is installed or it is not
InitLoop ==
    /\ funding_cache = <<>>
    /\ last_fetch_ms = <<>>
    /\ cache_symbol = DEFAULT_SYMBOL
    /\ now = StartTime
    /\ req = [c \in Clients |-> IdleRequest]
    /\ reply = NoReply
    /\ loop = [pc |-> "start", symbol |-> <<>>, wake |-> 0]
    /\ \E has_pandas \in BOOLEAN : parquet = [has_pandas |-> has_pandas, file |-> NoFile]
    /\ fan = IdleFan
    /\ call = NoCall

\* a cycle whose fetch_all returned: lines 35-49 and 52
LoopFinish ==
    /\ loop.pc = "fetching"
    /\ \E up \in Scenarios(loop.symbol), ios \in IoChoices(parquet.has_pandas) :
         /\ RefreshCycle(up, ios)
         /\ call' = CycleOutcome("returned",
                                 IF SinkRaised(up, ios) THEN "raised" ELSE "done")

\* a mutant of LoopFail: the exception ends the task
LoopFailStops ==
    /\ loop.pc = "fetching"
    /\ loop' = [loop EXCEPT !.pc = "stopped"]
    /\ call' = CycleOutcome("raised", "none")
    /\ reply' = NoReply
    /\ UNCHANGED <<funding_cache, last_fetch_ms, cache_symbol, now, req, parquet, fan>>

\* a cycle whose await of fetch_all raised an Exception: lines 35 and 50-52,
\* nothing is written and the loop goes to sleep
LoopFail ==
    /\ loop.pc = "fetching"
    /\ loop' = [loop EXCEPT !.pc = "sleeping", !.wake = now + REFRESH_INTERVAL_SEC]
    /\ call' = CycleOutcome("raised", "none")
    /\ reply' = NoReply
    /\ UNCHANGED <<funding_cache, last_fetch_ms, cache_symbol, now, req, parquet, fan>>

NextLoop ==
    \/ RefreshStart
    \/ RefreshWake
    \/ LoopFinish
    \/ LoopFail
    \/ FundingRequest(1, DEFAULT_SYMBOL)
    \/ FundingComplete(1)
    \/ Tick(REFRESH_INTERVAL_SEC)

\* the await of fetch_all ends, by a return or by an exception, and the cycle
\* runs on to its sleep: the steps LoopFinish and LoopFail as the loop sees
\* them (every HTTP call of the fan-out has a timeout)
FetchReturns ==
    /\ loop.pc = "fetching"
    /\ loop' = [loop EXCEPT !.pc = "sleeping", !.wake = now + REFRESH_INTERVAL_SEC]

FairLoop ==
    /\ WF_vars(RefreshStart)
    /\ WF_vars(RefreshWake)
    /\ WF_loop(FetchReturns)
    /\ WF_vars(Tick(REFRESH_INTERVAL_SEC))

SpecLoop == InitLoop /\ [][NextLoop]_vars /\ FairLoop

-----------------------------------------------------------------------------
\* Claims checked under SpecLoop.

\* a cycle can still be followed by another one before the clock of the model stops
CycleCanFollow == now + REFRESH_INTERVAL_SEC <= StartTime + MaxElapsed

\* C17: whenever the fetch step of a refresh cycle raises, the loop stays
\* alive and eventually starts another cycle; and the loop has no terminal
\* state: it is always starting, fetching or sleeping, every fetch ends in a
\* sleep and every sleep ends in the next fetch.
C17_LoopSurvivesFailedFetch ==
    /\ [](loop.pc \in {"start", "fetching", "sleeping"})
    /\ (call.fn = "_refresh_loop" /\ call.fetch = "raised" /\ call.at = now /\ CycleCanFollow)
          ~> (loop.pc = "fetching")
    /\ (loop.pc = "fetching") ~> (loop.pc = "sleeping")
    /\ (loop.pc = "sleeping" /\ loop.wake <= StartTime + MaxElapsed) ~> (loop.pc = "fetching")

\* the cycle after one whose fetch raised is under way
C17_Witness ==
    /\ call.fn = "_refresh_loop"
    /\ call.fetch = "raised"
    /\ loop.pc = "fetching"
    /\ now >= call.at + REFRESH_INTERVAL_SEC

\* C18: if the history sink raises, or is unavailable, in a refresh cycle, the
\* cycle still leaves the cache entry it wrote, stamped with the time of the
\* write, goes to its sleep and from there to the next cycle, touches no
\* request in flight, and a response served from the cache afterwards is the
\* cache entry.
C18_SinkFailureStaysInsideCycle ==
    /\ [][\A up \in Scenarios(loop.symbol), ios \in IoChoices(parquet.has_pandas) :
             (RefreshCycle(up, ios) /\ (SinkRaised(up, ios) \/ ~parquet.has_pandas)) =>
                /\ loop.symbol \in DictKeys(funding_cache')
                /\ DictGet(funding_cache', loop.symbol) = fetch_all(loop.symbol, up)
                /\ last_fetch_ms'[loop.symbol] = now
                /\ loop'.pc = "sleeping"
                /\ loop'.wake = now + REFRESH_INTERVAL_SEC
                /\ req' = req]_vars
    /\ (/\ call.fn = "_refresh_loop"
        /\ call.at = now
        /\ call.fetch = "returned"
        /\ call.sink = "raised" \/ ~parquet.has_pandas
        /\ CycleCanFollow) ~> (loop.pc = "fetching")
    /\ []((/\ call.fn = "_refresh_loop"
           /\ call.fetch = "returned"
           /\ call.sink = "raised" \/ ~parquet.has_pandas
           /\ reply.endpoint = "funding"
           /\ reply.path = "cache") =>
              reply.resp.body = DictGet(funding_cache, reply.symbol))

\* a write_row call raised in the cycle that wrote the entry, a snapshot with
\* a good Binance record, and a client has just been served that entry
C18_Witness ==
    /\ parquet.has_pandas
    /\ call.fn = "_refresh_loop"
    /\ call.sink = "raised"
    /\ reply.endpoint = "funding"
    /\ reply.path = "cache"
    /\ call.at = last_fetch_ms[reply.symbol]
    /\ "error" \notin DOMAIN DictGet(reply.resp.body, "binance")

-----------------------------------------------------------------------------
\* The OKX adapter on its own: _okx_ts_ms, _okx_interval_hours, fetch_okx and
\* fetch_funding_history_okx applied to one item of an OKX response.

MaxHalfHours == 51   \* fundingTime lies up to this many half hours before nextFundingTime

\* the nextFundingTime OKX reports, in ms and in seconds
OkxNextMs == NextFunding + 8 * HOUR_MS
OkxNextSec == 1700064

\* what the nextFundingTime field may hold
OkxNextValues ==
    {JNumStr(OkxNextMs), JInt(OkxNextMs), JNumStr(OkxNextSec), JNumStr(SECONDS_BELOW),
     JNumStr(0), JStr("soon"), JStr(""), JMissing}

\* what the fundingTime field may hold: a time up to MaxHalfHours half hours
\* before the reported next time, in ms or in seconds, or nothing usable
OkxCurrValues ==
    {JNumStr(OkxNextMs - k * (HOUR_MS \div 2)) : k \in 0..MaxHalfHours}
    \cup {JNumStr(OkxNextSec - j) : j \in {9, 18, 36}}
    \cup {JStr("soon"), JMissing}

\* what the prevFundingTime field may hold
OkxPrevValues ==
    {JNumStr(OkxNextMs - k * (HOUR_MS \div 2)) : k \in {0, 1, 8, 16, 49}}
    \cup {JNumStr(OkxNextSec - 18), JMissing}

\* the item of the response is received
OkxInput ==
    /\ call = NoCall
    /\ \E next \in OkxNextValues, curr \in OkxCurrValues, prev \in OkxPrevValues :
          call' = [fn |-> "okx_item", item |-> OkxItem(DEFAULT_SYMBOL, next, curr, prev)]
    /\ UNCHANGED <<funding_cache, last_fetch_ms, cache_symbol, now, req, reply, loop, parquet, fan>>

\* _okx_ts_ms of the item's nextFundingTime, as lines 150 and 232 call it
OkxTs ==
    /\ call.fn = "okx_item"
    /\ call' = [fn |-> "_okx_ts_ms", item |-> call.item,
                out |-> _okx_ts_ms(PyOr(call.item.nextFundingTime, JNumStr(0)))]
    /\ UNCHANGED <<funding_cache, last_fetch_ms, cache_symbol, now, req, reply, loop, parquet, fan>>

\* _okx_interval_hours(item)
OkxInterval ==
    /\ call.fn = "okx_item"
    /\ call' = [fn |-> "_okx_interval_hours", item |-> call.item,
                out |-> _okx_interval_hours(call.item)]
    /\ UNCHANGED <<funding_cache, last_fetch_ms, cache_symbol, now, req, reply, loop, parquet, fan>>

\* fetch_okx on a response that holds the item
OkxFetch ==
    /\ call.fn = "okx_item"
    /\ call' = [fn |-> "fetch_okx", item |-> call.item,
                out |-> fetch_okx(DEFAULT_SYMBOL, OkxUp("ok", "dict", "0", <<call.item>>)).val]
    /\ UNCHANGED <<funding_cache, last_fetch_ms, cache_symbol, now, req, reply, loop, parquet, fan>>

\* fetch_funding_history_okx on a response whose point carries the item's
\* nextFundingTime value as its fundingTime
OkxHistory ==
    /\ call.fn = "okx_item"
    /\ call' = [fn |-> "fetch_funding_history_okx", item |-> call.item,
                out |-> fetch_funding_history_okx(DEFAULT_SYMBOL,
                            HistoryUp("ok", "dict", 0,
                                      <<HistoryItem(call.item.nextFundingTime)>>))]
    /\ UNCHANGED <<funding_cache, last_fetch_ms, cache_symbol, now, req, reply, loop, parquet, fan>>

NextOkx ==
    \/ OkxInput
    \/ OkxTs
    \/ OkxInterval
    \/ OkxFetch
    \/ OkxHistory

SpecOkx == Init /\ [][NextOkx]_vars

\* the value of a timestamp field that spells an integer of at least 10^12 ms
ReportedMs(v) == v.t \in {"int", "numstr"} /\ v.v >= 1000000000

\* C23: for an OKX response whose nextFundingTime is T ms and whose derived
\* interval is h hours, the adapter's nextFundingTimeMs is T - h * 3,600,000;
\* when T - fundingTime is 8 hours it is T - 28,800,000.
C23_OkxNextMinusInterval ==
    (call.fn = "fetch_okx" /\ ReportedMs(call.item.nextFundingTime)) =>
        LET T == call.item.nextFundingTime.v
            F == call.item.fundingTime
        IN  /\ \E h \in 1..24 :
                  /\ call.out.interval = IntStr(h) \o "h"
                  /\ call.out.nextFundingTimeMs = T - h * 3600
            /\ (ReportedMs(F) /\ T - F.v = 8 * 3600) =>
                  call.out.nextFundingTimeMs = T - 28800

\* a response with fundingTime 8 hours before nextFundingTime went through
\* fetch_okx
C23_Witness ==
    /\ call.fn = "fetch_okx"
    /\ ReportedMs(call.item.nextFundingTime)
    /\ ReportedMs(call.item.fundingTime)
    /\ call.item.nextFundingTime.v - call.item.fundingTime.v = 28800
    /\ call.out.interval = "8h"
    /\ call.out.nextFundingTimeMs = call.item.fundingTime.v

\* h is d / 3,600,000 rounded to the nearest integer, a tie going to the even one
RoundsTo(d, h) ==
    LET off == IF d >= h * 3600 THEN d - h * 3600 ELSE h * 3600 - d
    IN  off < 1800 \/ (off = 1800 /\ h % 2 = 0)

\* C29: _okx_interval_hours returns the rounded hour difference
\* nextFundingTime - fundingTime when that lies in [1,24]; otherwise the
\* rounded hour difference nextFundingTime - prevFundingTime when that lies in
\* [1,24]; otherwise 8; the result is always an integer in [1,24].
C29_OkxIntervalHours ==
    call.fn = "_okx_interval_hours" =>
        LET n == _okx_ts_ms(PyOr(call.item.nextFundingTime, JNumStr(0)))
            c == _okx_ts_ms(PyOr(call.item.fundingTime, JNumStr(0)))
            p == _okx_ts_ms(PyOr(call.item.prevFundingTime, JNumStr(0)))
            byCurr == {h \in 1..24 : RoundsTo(n - c, h)}
            byPrev == {h \in 1..24 : RoundsTo(n - p, h)}
        IN  /\ call.out \in 1..24
            /\ byCurr # {} => call.out \in byCurr
            /\ (byCurr = {} /\ byPrev # {}) => call.out \in byPrev
            /\ (byCurr = {} /\ byPrev = {}) => call.out = 8

\* fundingTime is missing and prevFundingTime lies 4 hours before
\* nextFundingTime: the interval is 4
C29_Witness ==
    /\ call.fn = "_okx_interval_hours"
    /\ call.item.fundingTime = JMissing
    /\ ReportedMs(call.item.nextFundingTime)
    /\ ReportedMs(call.item.prevFundingTime)
    /\ call.item.nextFundingTime.v - call.item.prevFundingTime.v = 4 * 3600
    /\ call.out = 4

\* a raw timestamp r (a non-negative integer, as a number or spelled in a
\* string) brought to epoch milliseconds: below 10^12 it is in seconds
InEpochMs(r) == IF r.v < 1000000000 THEN r.v * 1000 ELSE r.v

\* C30: every raw OKX timestamp below 10^12 is taken as seconds and
\* multiplied by 1000 and every raw timestamp of at least 10^12 is kept, so
\* that the nextFundingTimeMs of the OKX record (the reported time less the
\* interval) and the fundingTime of an OKX history point are in epoch ms.
C30_OkxSecondsScaled ==
    (call.fn \in {"_okx_ts_ms", "fetch_okx", "fetch_funding_history_okx"}
        /\ call.item.nextFundingTime.t \in {"int", "numstr"}) =>
        LET r == call.item.nextFundingTime
        IN  /\ call.fn = "_okx_ts_ms" => call.out = InEpochMs(r)
            /\ call.fn = "fetch_funding_history_okx" =>
                  /\ Len(call.out) = 1
                  /\ call.out[1].fundingTime = InEpochMs(r)
            /\ (call.fn = "fetch_okx" /\ r.v > 0) =>
                  \E h \in 1..24 : call.out.nextFundingTimeMs = InEpochMs(r) - h * 3600

\* a history point whose fundingTime came in seconds is returned in ms
C30_Witness ==
    /\ call.fn = "fetch_funding_history_okx"
    /\ call.item.nextFundingTime = JNumStr(1700064)
    /\ call.out[1].fundingTime = 1700064000

-----------------------------------------------------------------------------
\* The history sink on its own: write_row on a file left by earlier writes,
\* with pandas installed.

MaxFileRows == 2   \* the most rows of the file the first write finds

\* a persisted row, written at ts for the funding time next
SinkRow(ts, next) ==
    [ts |-> ts, exchange |-> "bybit", symbol |-> DEFAULT_SYMBOL,
     fundingRate |-> "0.0001", nextFundingTimeMs |-> next, interval |-> "8h"]

\* times just before, at and just after the start of the 8-hour window of
\* the first write, and the time of that write
SinkTimes ==
    {StartTime - WINDOW_HOURS * HOUR_MS - 1, StartTime - WINDOW_HOURS * HOUR_MS,
     StartTime - WINDOW_HOURS * HOUR_MS + 1, StartTime}

\* the files a write may find: none, or one of up to MaxFileRows rows
SinkFiles ==
    {NoFile} \cup
    {[exists |-> TRUE, rows |-> rows] :
        rows \in SeqsUpTo({SinkRow(ts, next) : ts \in SinkTimes, next \in SinkTimes},
                          MaxFileRows)}

InitSink ==
    /\ funding_cache = <<>>
    /\ last_fetch_ms = <<>>
    /\ cache_symbol = DEFAULT_SYMBOL
    /\ now = StartTime
    /\ req = [c \in Clients |-> IdleRequest]
    /\ reply = NoReply
    /\ loop = [pc |-> "start", symbol |-> <<>>, wake |-> 0]
    /\ \E file \in SinkFiles : parquet = [has_pandas |-> TRUE, file |-> file]
    /\ fan = IdleFan
    /\ call = NoCall

\* write_row("binance", symbol, rate, next, interval) while the file system
\* behaves as io
SinkWrite ==
    /\ Len(parquet.file.rows) <= MaxFileRows
    /\ \E io \in IoOutcomes :
          LET w == write_row(parquet.file, parquet.has_pandas, io, now, "binance",
                             DEFAULT_SYMBOL, "0.0003", NextFunding, "8h")
          IN  /\ parquet' = [parquet EXCEPT !.file = w.file]
              /\ call' = [fn |-> "write_row", before |-> parquet.file, io |-> io,
                          raised |-> w.raised, at |-> now]
    /\ UNCHANGED <<funding_cache, last_fetch_ms, cache_symbol, now, req, reply, loop, fan>>

NextSink == SinkWrite

SpecSink == InitSink /\ [][NextSink]_vars

\* the rows of a file as a set
FileRows(file) == {file.rows[i] : i \in DOMAIN file.rows}

\* the start of the 8-hour window at the time of the write
WindowStart == now - 8 * 3600

\* what C25 says of a write to the file before: the rows older than the
\* window on both counts are gone, the rows inside it on either count are
\* still there, nothing else came in but the new row, which is the last one
PrunedAndAppended(before, after) ==
    /\ \A x \in FileRows(before) :
          /\ (x.nextFundingTimeMs < WindowStart /\ x.ts < WindowStart) =>
                x \notin FileRows(after)
          /\ (x.nextFundingTimeMs > WindowStart \/ x.ts > WindowStart) =>
                x \in FileRows(after)
    /\ after.rows # <<>>
    /\ after.rows[Len(after.rows)].ts = now
    /\ after.rows[Len(after.rows)].exchange = "binance"
    /\ FileRows(after) \subseteq FileRows(before) \cup {after.rows[Len(after.rows)]}

-----------------------------------------------------------------------------
\* The refresh loop following the tracked symbol: one client sends
\* /api/funding requests for any symbol while the loop runs with the history
\* sink present or absent. fetch_all hands every venue failure back as a
\* record (gather with return_exceptions=True), so each await of it returns;
\* the event loop runs a task that can run, a sleep ends, the clock moves on.

NextTrack ==
    \/ RefreshStart
    \/ RefreshWake
    \/ LoopFinish
    \/ \E raw \in RawSymbols : FundingRequest(1, raw)
    \/ FundingComplete(1)
    \/ Tick(REFRESH_INTERVAL_SEC)

SpecTrack == InitLoop /\ [][NextTrack]_vars /\ FairLoop

\* the symbols a valid request can make the tracked symbol
TrackSymbols ==
    { _normalize_symbol(raw) : raw \in { r \in RawSymbols : SymbolOk(_normalize_symbol(r)) } }

\* the loop is about to read the tracked symbol: it has not started its first
\* cycle, or it sleeps and wakes before the clock of the model stops
LoopWillRead ==
    \/ loop.pc = "start"
    \/ loop.pc = "sleeping" /\ loop.wake <= StartTime + MaxElapsed

\* the refresh loop has just rewritten the cache entry of S: its cycle for S
\* returned, wrote the entry and went to sleep
RefresherWrote(S) ==
    /\ loop.pc = "sleeping"
    /\ loop.symbol = S
    /\ call.fn = "_refresh_loop"
    /\ call.fetch = "returned"
    /\ call.at + REFRESH_INTERVAL_SEC = loop.wake
    /\ DictHas(funding_cache, S)
    /\ last_fetch_ms[S] >= call.at

\* C27: once a valid request has made S the tracked symbol, a refresh cycle
\* that reads the tracked symbol reads S as long as no request has changed
\* it, keeps S for the whole cycle whatever is requested meanwhile, and
\* writes what it fetched for S into S's cache entry; and, the loop being
\* scheduled fairly, either a later request changes the tracked symbol or the
\* refresh loop, in the cycle that starts with its next read, eventually
\* rewrites S's cache entry.
C27_RefresherFollowsTrackedSymbol ==
    /\ [][ /\ (loop'.pc = "fetching" /\ loop.pc # "fetching") => loop'.symbol = cache_symbol
           /\ (loop.pc = "fetching" /\ loop'.pc = "fetching") => loop'.symbol = loop.symbol
           /\ (loop.pc = "fetching" /\ loop'.pc = "sleeping") =>
                 /\ loop'.symbol = loop.symbol
                 /\ DictHas(funding_cache', loop.symbol)
                 /\ \E up \in Scenarios(loop.symbol) :
                       DictGet(funding_cache', loop.symbol) = fetch_all(loop.symbol, up)
                 /\ last_fetch_ms'[loop.symbol] = now
         ]_vars
    /\ \A S \in TrackSymbols :
          (cache_symbol = S /\ LoopWillRead) ~> (cache_symbol # S \/ RefresherWrote(S))

\* a request made a symbol other than the default the tracked one, and the
\* refresh loop has rewritten that symbol's cache entry since
C27_Witness ==
    /\ cache_symbol # DEFAULT_SYMBOL
    /\ RefresherWrote(cache_symbol)
    /\ \A c \in Clients : req[c].pc = "idle"

-----------------------------------------------------------------------------
\* The forwarding of a cycle's records to the history sink, checked under
\* SpecLoop.

\* the venues whose record the cycle hands to write_row: the records the test
\* of line 40 lets through, up to and including the first whose write raises
Forwarded(up, ios) ==
    LET data == fetch_all(loop.symbol, up)
    IN  { data[n].key : n \in
            { m \in DOMAIN data :
                /\ ForwardThis(data[m].val)
                /\ ~ForwardRows(parquet.file, parquet.has_pandas, ios, now,
                                loop.symbol, data, m - 1).raised } }

\* C28: in each refresh cycle every per-venue record of the fetched snapshot
\* that has no error field is forwarded to the history sink, and no record
\* that has an error field is forwarded.
C28_GoodRecordsForwardedBadOnesNot ==
    [][\A up \in Scenarios(loop.symbol), ios \in IoChoices(parquet.has_pandas) :
          RefreshCycle(up, ios) =>
             LET data == fetch_all(loop.symbol, up)
             IN  \A n \in DOMAIN data :
                    "error" \notin DOMAIN data[n].val <=> data[n].key \in Forwarded(up, ios)
      ]_vars

-----------------------------------------------------------------------------
\* Claims about the history sink and the cache under the interleavings of the
\* refresh loop with a client's requests, checked under SpecTrack.

\* the file system lets every write_row call of a cycle through
AllOk(ios) == \A i \in DOMAIN ios : ios[i] = "ok"

\* C32: the history sink has a single writer. The sink's file changes only in
\* a step of the one refresh loop, the step from its fetch to its sleep, which
\* no request handler shares; no step of a request handler touches the sink;
\* and the write_row calls of a cycle follow one another, each working on the
\* file the one before left: when the file system lets them through, the file
\* afterwards holds the rows the pruning keeps and one more row for each
\* record forwarded, none lost.
C32_SinkHasSingleWriter ==
    [][ /\ parquet' # parquet =>
              /\ loop.pc = "fetching"
              /\ loop'.pc = "sleeping"
              /\ req' = req
              /\ reply' = NoReply
              /\ parquet'.has_pandas = parquet.has_pandas
        /\ \A c \in Clients :
              ( \/ FundingComplete(c)
                \/ \E raw \in RawSymbols : FundingRequest(c, raw) )
              => parquet' = parquet
        /\ (loop.pc = "fetching" /\ loop'.pc = "sleeping" /\ parquet.has_pandas) =>
              \A up \in Scenarios(loop.symbol), ios \in IoChoices(parquet.has_pandas) :
                 (AllOk(ios) /\ RefreshCycle(up, ios)) =>
                    Len(parquet'.file.rows) =
                       Len(PruneRows(parquet.file.rows, now)) + Cardinality(Forwarded(up, ios))
      ]_vars

\* the loop has written two rows to the sink in a cycle that ran while a
\* request was in flight: the request changed the tracked symbol after the
\* loop had read it and still awaits its own fetch
C32_Witness ==
    /\ parquet.has_pandas
    /\ Len(parquet.file.rows) = 2
    /\ loop.pc = "sleeping"
    /\ loop.wake = now + REFRESH_INTERVAL_SEC
    /\ req[1].pc = "fetching"
    /\ req[1].symbol = cache_symbol
    /\ cache_symbol # loop.symbol

\* the loop is in the fetch of a cycle for S, and S's entry has not been
\* written since the loop's previous cycle ended
AwaitsBackgroundWrite(S) ==
    /\ loop.pc = "fetching"
    /\ loop.symbol = S
    /\ call.fn = "_refresh_loop"
    /\ DictHas(funding_cache, S)
    /\ last_fetch_ms[S] <= call.at

====
